---------------------------- MODULE Spec2Model ----------------------------
(***************************************************************************)
(* TrailPack server (src/server/index.js): pack lists, items and the gear  *)
(* catalog (gear_library), over the two storage drivers createPostgresDb   *)
(* and createSqliteDb, and the express handlers of main().                  *)
(*                                                                         *)
(* Text is a sequence of one-character strings, so that trim() and         *)
(* slice() are computed.  A number submitted in a request body is an       *)
(* integer count of tenths (12800 is 1280.0), so that Math.round is        *)
(* computed; stored weights and quantities are whole numbers.              *)
(***************************************************************************)
EXTENDS Integers, Sequences, FiniteSets, TLC

VARIABLES
    driver,     \* db.driver: "postgres" or "sqlite", fixed by createDbClient
    db,         \* the committed tables and their id sequences
    last,       \* the last request served, with its response
    pre,        \* the tables as they were when that request arrived
    cloned,     \* the <<source, clone>> pairs made by clonePackList so far
    reqs,       \* requests in flight: position and locals of each handler
    steps,      \* number of requests accepted so far
    state,      \* the client's state: the items of the list on the page
    rendered,   \* the weight totals the page shows for them
    auth        \* the user's password hash, the password_resets rows and the reset calls

vars == <<driver, db, last, pre, cloned, reqs, steps, state, rendered, auth>>

-----------------------------------------------------------------------------
(* Bounds of the model *)

MaxSteps == 2       \* requests served in one behaviour of Spec
SeedCount == 2      \* leading rows of defaultSeedItems that are modelled
MaxPatchFields == 1 \* fields carried by one PATCH /api/items/:id
MaxConc == 2        \* requests in flight at once in SpecConc
MaxStarts == 3      \* requests accepted in one behaviour of SpecConc

\* Two registered accounts.  The requests of the model are the first one's;
\* the second owns rows from the start, and the code treats users alike.
Users == {1, 2}
Actors == {1}

-----------------------------------------------------------------------------
(* Text *)

SP == " "

RECURSIVE TrimStart(_)
TrimStart(s) ==
    IF s # << >> /\ Head(s) = SP THEN TrimStart(Tail(s)) ELSE s

RECURSIVE TrimEnd(_)
TrimEnd(s) ==
    IF s # << >> /\ s[Len(s)] = SP THEN TrimEnd(SubSeq(s, 1, Len(s) - 1)) ELSE s

\* String.prototype.trim
Trim(s) == TrimEnd(TrimStart(s))

\* String.prototype.slice(0, n)
Slice(s, n) == IF Len(s) <= n THEN s ELSE SubSeq(s, 1, n)

\* a || b on strings: the empty string is falsy
OrElse(a, b) == IF a # << >> THEN a ELSE b

\* Math.round on a number given in tenths (halves round up)
Round(t) == (t + 5) \div 10

\* Math.max
Max(a, b) == IF a >= b THEN a ELSE b

EmptyText == << >>
BASE == <<"b", "a", "s", "e">>
WORN == <<"w", "o", "r", "n">>
CONSUMABLE == <<"c", "o", "n", "s", "u", "m", "a", "b", "l", "e">>
ValidTypes == {BASE, WORN, CONSUMABLE}

\* "未分类", the category POST /api/items falls back to
Uncategorized == <<"u", "n", "c", "a", "t">>

\* "默认行程"
defaultListName == <<"d", "e", "f", "a", "u", "l", "t">>

\* " (复制)", appended to the source name when a clone is not given a name
CopySuffix == <<" ", "(", "c", "o", "p", "y", ")">>

SleepSystem == <<"s", "l", "e", "e", "p">>
Clothing == <<"c", "l", "o", "t", "h">>
Cookware == <<"c", "o", "o", "k">>
Electronics == <<"e", "l", "e", "c">>
Other == <<"o", "t", "h", "e", "r">>
Tent == <<"t", "e", "n", "t">>
SleepingBag == <<"b", "a", "g">>
Jacket == <<"j", "a", "c", "k", "e", "t">>
Stove == <<"s", "t", "o", "v", "e">>
Headlamp == <<"l", "a", "m", "p">>
EnergyGel == <<"g", "e", "l">>

defaultSeedItems ==
    << [name |-> Tent, category |-> SleepSystem, type |-> BASE, weight |-> 1280, qty |-> 1],
       [name |-> SleepingBag, category |-> SleepSystem, type |-> BASE, weight |-> 920, qty |-> 1],
       [name |-> Jacket, category |-> Clothing, type |-> WORN, weight |-> 460, qty |-> 1],
       [name |-> Stove, category |-> Cookware, type |-> BASE, weight |-> 380, qty |-> 1],
       [name |-> Headlamp, category |-> Electronics, type |-> BASE, weight |-> 95, qty |-> 1],
       [name |-> EnergyGel, category |-> Other, type |-> CONSUMABLE, weight |-> 45, qty |-> 6] >>

\* The seed rows within the bound
SeedRows == SubSeq(defaultSeedItems, 1, IF SeedCount < 6 THEN SeedCount ELSE 6)

-----------------------------------------------------------------------------
(* Tables.  db = [pack_lists, items, gear_library, seq]; every operator    *)
(* below is one SQL statement: it takes the tables and returns the tables. *)

NULL == 0

Tables(D) == [pack_lists |-> D.pack_lists, items |-> D.items, gear_library |-> D.gear_library]

EmptyDb ==
    [pack_lists |-> {}, items |-> {}, gear_library |-> {},
     seq |-> [pack_lists |-> 0, items |-> 0, gear_library |-> 0]]

MinOf(S) == CHOOSE x \in S : \A y \in S : x <= y

\* SELECT id, name FROM pack_lists WHERE user_id = ? ORDER BY id ASC LIMIT 1
SelectFirstList(D, userId) ==
    LET mine == {l \in D.pack_lists : l.user_id = userId}
    IN  IF mine = {} THEN NULL ELSE MinOf({l.id : l \in mine})

\* INSERT INTO pack_lists (user_id, name, destination) VALUES (?, ?, '')
InsertPackList(D, userId, name) ==
    LET id == D.seq.pack_lists + 1
    IN  [D EXCEPT !.pack_lists = @ \cup {[id |-> id, user_id |-> userId, name |-> name]},
                  !.seq.pack_lists = id]

\* INSERT INTO items (user_id, list_id, name, description, category, type, weight, qty)
InsertItem(D, userId, listId, it) ==
    LET id == D.seq.items + 1
    IN  [D EXCEPT !.items = @ \cup
                      {[id |-> id, user_id |-> userId, list_id |-> listId, name |-> it.name,
                        description |-> it.description, category |-> it.category,
                        type |-> it.type, weight |-> it.weight, qty |-> it.qty]},
                  !.seq.items = id]

\* The natural key of the UNIQUE(user_id, name, category, type, weight) constraint
SameKey(g, userId, name, category, type, weight) ==
    /\ g.user_id = userId
    /\ g.name = name
    /\ g.category = category
    /\ g.type = type
    /\ g.weight = weight

GearsAt(D, userId, name, category, type, weight) ==
    {g \in D.gear_library : SameKey(g, userId, name, category, type, weight)}

\* DO UPDATE SET default_qty = excluded.default_qty
SeedMerge(g, excluded) == [g EXCEPT !.default_qty = excluded.default_qty]

\* DO UPDATE SET default_qty = GREATEST(gear_library.default_qty, EXCLUDED.default_qty),
\*               description = EXCLUDED.description
WeightMerge(g, excluded) ==
    [g EXCEPT !.default_qty = Max(g.default_qty, excluded.default_qty),
              !.description = excluded.description]

\* DO UPDATE SET default_qty = excluded.default_qty, description = excluded.description
GearMerge(g, excluded) ==
    [g EXCEPT !.default_qty = excluded.default_qty, !.description = excluded.description]

\* The DO UPDATE clause of each INSERT INTO gear_library
DoUpdate(clause, g, excluded) ==
    CASE clause = "seed" -> SeedMerge(g, excluded)
      [] clause = "weight" -> WeightMerge(g, excluded)
      [] clause = "gear" -> GearMerge(g, excluded)

\* INSERT INTO gear_library ... ON CONFLICT (user_id, name, category, type, weight)
\* DO UPDATE SET ...: `clause` names the DO UPDATE clause, from the row in place
\* and the excluded row.  A BIGSERIAL id is drawn before the conflict is
\* seen, so Postgres skips an id on a conflict; SQLite does not.
UpsertGearRow(D, drv, row, clause) ==
    LET hit == GearsAt(D, row.user_id, row.name, row.category, row.type, row.weight)
        id == D.seq.gear_library + 1
        excluded == [row EXCEPT !.id = id]
    IN  IF hit = {}
        THEN [D EXCEPT !.gear_library = @ \cup {excluded}, !.seq.gear_library = id]
        ELSE [D EXCEPT !.gear_library = (@ \ hit) \cup {DoUpdate(clause, g, excluded) : g \in hit},
                       !.seq.gear_library = IF drv = "postgres" THEN id ELSE @]

GearRow(userId, name, description, category, type, weight, defaultQty) ==
    [id |-> NULL, user_id |-> userId, name |-> name, description |-> description,
     category |-> category, type |-> type, weight |-> weight, default_qty |-> defaultQty]

\* upsertSeedGear / the seed INSERT of ensureDefaultList
UpsertSeedGear(D, drv, userId, seed) ==
    UpsertGearRow(D, drv,
        GearRow(userId, seed.name, EmptyText, seed.category, seed.type, seed.weight, seed.qty),
        "seed")

\* insertSeedItem
InsertSeedItem(D, userId, listId, seed) ==
    InsertItem(D, userId, listId,
        [name |-> seed.name, description |-> EmptyText, category |-> seed.category,
         type |-> seed.type, weight |-> seed.weight, qty |-> seed.qty])

\* UPDATE items SET list_id = ? WHERE user_id = ? AND list_id IS NULL
RepairListless(D, userId, listId) ==
    [D EXCEPT !.items = {IF i.user_id = userId /\ i.list_id = NULL
                         THEN [i EXCEPT !.list_id = listId] ELSE i : i \in @}]

RECURSIVE SeedFrom(_, _, _, _, _)
SeedFrom(D, drv, userId, listId, k) ==
    IF k > Len(SeedRows) THEN D
    ELSE SeedFrom(InsertSeedItem(UpsertSeedGear(D, drv, userId, SeedRows[k]),
                                 userId, listId, SeedRows[k]),
                  drv, userId, listId, k + 1)

\* ensureDefaultList without its `if (!list)`: a list is made on every call
ensureDefaultListUnguarded(D, drv, userId) ==
    LET D1 == InsertPackList(D, userId, defaultListName)
        id == D1.seq.pack_lists
        D2 == SeedFrom(D1, drv, userId, id, 1)
    IN  [db |-> RepairListless(D2, userId, id), list |-> id]

\* db.ensureDefaultList run without interruption: [db, list]
ensureDefaultList(D, drv, userId) ==
    LET existing == SelectFirstList(D, userId)
    IN  IF existing # NULL
        THEN [db |-> RepairListless(D, userId, existing), list |-> existing]
        ELSE LET D1 == InsertPackList(D, userId, defaultListName)
                 id == D1.seq.pack_lists
                 D2 == SeedFrom(D1, drv, userId, id, 1)
             IN  [db |-> RepairListless(D2, userId, id), list |-> id]


-----------------------------------------------------------------------------
(* The driver methods, each run without interruption.  A method that only  *)
(* reads returns its rows; one that writes returns [db, ...].              *)

NoRow == [id |-> NULL]

RowOf(S) == IF S = {} THEN NoRow ELSE CHOOSE r \in S : TRUE

\* The columns every item SELECT returns: id, name, description, category, type, weight, qty
ItemView(i) ==
    IF i.id = NULL THEN NoRow
    ELSE [id |-> i.id, name |-> i.name, description |-> i.description,
          category |-> i.category, type |-> i.type, weight |-> i.weight, qty |-> i.qty]

getPackListById(D, userId, listId) ==
    RowOf({l \in D.pack_lists : l.user_id = userId /\ l.id = listId})

listPackLists(D, userId) == {l.id : l \in {r \in D.pack_lists : r.user_id = userId}}

createPackList(D, userId, name) ==
    LET D1 == InsertPackList(D, userId, name)
    IN  [db |-> D1, list |-> D1.seq.pack_lists]

countPackLists(D, userId) == Cardinality({l \in D.pack_lists : l.user_id = userId})

\* DELETE FROM items WHERE user_id = ?, the list_id condition left out
DeleteItemsOfUser(D, userId, listId) ==
    [D EXCEPT !.items = {i \in @ : i.user_id # userId}]

\* DELETE FROM items WHERE user_id = ? AND list_id = ?
DeleteItemsOfList(D, userId, listId) ==
    [D EXCEPT !.items = {i \in @ : ~(i.user_id = userId /\ i.list_id = listId)}]

\* DELETE FROM pack_lists WHERE user_id = ? AND id = ?
DeleteListRow(D, userId, listId) ==
    [D EXCEPT !.pack_lists = {l \in @ : ~(l.user_id = userId /\ l.id = listId)}]

deletePackList(D, userId, listId) ==
    LET D1 == DeleteItemsOfList(D, userId, listId)
        D2 == DeleteListRow(D1, userId, listId)
    IN  [db |-> D2, changes |-> Cardinality(D1.pack_lists) - Cardinality(D2.pack_lists)]

listItems(D, userId, listId) ==
    {ItemView(i) : i \in {r \in D.items : r.user_id = userId /\ r.list_id = listId}}

createItem(D, userId, listId, it) ==
    LET D1 == InsertItem(D, userId, listId, it)
    IN  [db |-> D1, item |-> ItemView(RowOf({i \in D1.items : i.id = D1.seq.items}))]

getItemById(D, id, userId) ==
    ItemView(RowOf({i \in D.items : i.id = id /\ i.user_id = userId}))

\* updateItemType fanned out by name, as the weight and description are
updateItemTypeByName(D, id, userId, type) ==
    LET it == RowOf({i \in D.items : i.id = id /\ i.user_id = userId})
        D1 == [D EXCEPT !.items = {IF i.user_id = userId /\ it.id # NULL /\ i.name = it.name
                                   THEN [i EXCEPT !.type = type] ELSE i : i \in @}]
    IN  [db |-> D1, item |-> ItemView(RowOf({i \in D1.items : i.id = id /\ i.user_id = userId}))]

\* UPDATE items SET type = ? WHERE id = ? AND user_id = ?
updateItemType(D, id, userId, type) ==
    LET D1 == [D EXCEPT !.items = {IF i.id = id /\ i.user_id = userId
                                   THEN [i EXCEPT !.type = type] ELSE i : i \in @}]
    IN  [db |-> D1, item |-> getItemById(D1, id, userId)]

\* UPDATE items SET category = ? WHERE <the natural key of the item with the id>
updateItemCategoryByKey(D, id, userId, category) ==
    LET it == getItemById(D, id, userId)
        D1 == [D EXCEPT !.items =
                  {IF it.id # NULL /\ SameKey(i, userId, it.name, it.category, it.type, it.weight)
                   THEN [i EXCEPT !.category = category] ELSE i : i \in @}]
    IN  [db |-> D1, item |-> getItemById(D1, id, userId)]

\* UPDATE items SET category = ? WHERE id = ? AND user_id = ?
updateItemCategory(D, id, userId, category) ==
    LET D1 == [D EXCEPT !.items = {IF i.id = id /\ i.user_id = userId
                                   THEN [i EXCEPT !.category = category] ELSE i : i \in @}]
    IN  [db |-> D1, item |-> getItemById(D1, id, userId)]

\* UPDATE items SET description = ? WHERE <the whole natural key, category included>
UpdateItemDescriptionsInCategory(D, userId, it, description) ==
    [D EXCEPT !.items =
        {IF SameKey(i, userId, it.name, it.category, it.type, it.weight)
         THEN [i EXCEPT !.description = description] ELSE i : i \in @}]

\* UPDATE items SET description = ? WHERE user_id = ? AND name = ? AND type = ? AND weight = ?
UpdateItemDescriptions(D, userId, it, description) ==
    [D EXCEPT !.items =
        {IF i.user_id = userId /\ i.name = it.name /\ i.type = it.type /\ i.weight = it.weight
         THEN [i EXCEPT !.description = description] ELSE i : i \in @}]

\* UPDATE gear_library SET description = ? WHERE name = ? AND type = ? AND weight = ?:
\* the rows of every user
UpdateGearDescriptionsOfAll(D, userId, it, description) ==
    [D EXCEPT !.gear_library =
        {IF g.name = it.name /\ g.type = it.type /\ g.weight = it.weight
         THEN [g EXCEPT !.description = description] ELSE g : g \in @}]

\* UPDATE gear_library SET description = ? WHERE user_id = ? AND name = ? AND type = ? AND weight = ?
UpdateGearDescriptions(D, userId, it, description) ==
    [D EXCEPT !.gear_library =
        {IF g.user_id = userId /\ g.name = it.name /\ g.type = it.type /\ g.weight = it.weight
         THEN [g EXCEPT !.description = description] ELSE g : g \in @}]

updateItemDescriptionAndSync(D, id, userId, description) ==
    LET it == getItemById(D, id, userId)
        D1 == UpdateItemDescriptions(D, userId, it, description)
        D2 == UpdateGearDescriptions(D1, userId, it, description)
    IN  IF it.id = NULL THEN [db |-> D, item |-> NoRow]
        ELSE [db |-> D2, item |-> getItemById(D2, id, userId)]

\* UPDATE items SET weight = ? WHERE user_id = ? AND name = ? AND type = ? AND weight = ?:
\* the category left out of the key
UpdateItemWeightsAnyCategory(D, userId, it, weight) ==
    [D EXCEPT !.items =
        {IF i.user_id = userId /\ i.name = it.name /\ i.type = it.type /\ i.weight = it.weight
         THEN [i EXCEPT !.weight = weight] ELSE i : i \in @}]

\* UPDATE items SET weight = ? WHERE id = ?: the edited row alone
UpdateItemWeightById(D, userId, it, weight) ==
    [D EXCEPT !.items = {IF i.id = it.id THEN [i EXCEPT !.weight = weight] ELSE i : i \in @}]

\* UPDATE items SET weight = ? WHERE user_id = ? AND name = ? AND category = ? AND type = ? AND weight = ?
UpdateItemWeights(D, userId, it, weight) ==
    [D EXCEPT !.items =
        {IF SameKey(i, userId, it.name, it.category, it.type, it.weight)
         THEN [i EXCEPT !.weight = weight] ELSE i : i \in @}]

\* UPDATE gear_library SET weight = ? WHERE the key is the pre-edit key: the
\* catalog row moved to the new weight, and no row made where there was none
MoveGearToNewWeight(D, drv, userId, it, weight) ==
    IF GearsAt(D, userId, it.name, it.category, it.type, weight) # {} THEN D
    ELSE [D EXCEPT !.gear_library =
            {IF SameKey(g, userId, it.name, it.category, it.type, it.weight)
             THEN [g EXCEPT !.weight = weight] ELSE g : g \in @}]

\* The catalog INSERT of updateItemWeightAndSync.  Postgres always runs it;
\* SQLite runs it only when its SELECT found no row at the new key.
MergeGearAtNewWeight(D, drv, userId, it, weight) ==
    IF drv = "sqlite" /\ GearsAt(D, userId, it.name, it.category, it.type, weight) # {}
    THEN D
    ELSE UpsertGearRow(D, drv,
            GearRow(userId, it.name, OrElse(it.description, EmptyText), it.category,
                    it.type, weight, it.qty),
            "weight")

\* DELETE FROM gear_library WHERE <the pre-edit key> [AND id <> merged id]:
\* Postgres spares the row its INSERT returned, SQLite names no id.
DeleteGearAtOldWeight(D, drv, userId, it, weight) ==
    LET merged == GearsAt(D, userId, it.name, it.category, it.type, weight)
    IN  [D EXCEPT !.gear_library =
            {g \in @ : ~(/\ SameKey(g, userId, it.name, it.category, it.type, it.weight)
                         /\ (drv = "postgres" => g \notin merged))}]

\* No ROLLBACK: what the statements before the failing one wrote stays
NoRollback(D0, reached, drv) == reached

\* ROLLBACK: the tables are as at BEGIN.  A Postgres sequence is not rolled
\* back; SQLite's sqlite_sequence table is.
Rollback(D0, reached, drv) ==
    [D0 EXCEPT !.seq = IF drv = "postgres" THEN reached.seq ELSE @]

\* db.updateItemWeightAndSync without `if (Number(item.weight) === Number(weight)) return item`
updateItemWeightAndSyncAlways(D, drv, id, userId, weight, fail) ==
    LET it == getItemById(D, id, userId)
        W1 == UpdateItemWeights(D, userId, it, weight)
        W2 == MergeGearAtNewWeight(W1, drv, userId, it, weight)
        W3 == DeleteGearAtOldWeight(W2, drv, userId, it, weight)
        reached == IF fail = 1 THEN D ELSE IF fail = 2 THEN W1 ELSE IF fail = 3 THEN W2 ELSE W3
    IN  IF it.id = NULL THEN [db |-> D, item |-> NoRow, threw |-> FALSE]
        ELSE IF fail # 0 THEN [db |-> Rollback(D, reached, drv), item |-> NoRow, threw |-> TRUE]
        ELSE [db |-> W3, item |-> getItemById(W3, id, userId), threw |-> FALSE]

\* db.updateItemWeightAndSync.  fail = k > 0: the k-th statement of the
\* transaction throws (3 statements, then COMMIT as the 4th).
updateItemWeightAndSync(D, drv, id, userId, weight, fail) ==
    LET it == getItemById(D, id, userId)
        W1 == UpdateItemWeights(D, userId, it, weight)
        W2 == MergeGearAtNewWeight(W1, drv, userId, it, weight)
        W3 == DeleteGearAtOldWeight(W2, drv, userId, it, weight)
        reached == IF fail = 1 THEN D ELSE IF fail = 2 THEN W1 ELSE IF fail = 3 THEN W2 ELSE W3
    IN  IF it.id = NULL THEN [db |-> D, item |-> NoRow, threw |-> FALSE]
        ELSE IF it.weight = weight THEN [db |-> D, item |-> it, threw |-> FALSE]
        ELSE IF fail # 0 THEN [db |-> Rollback(D, reached, drv), item |-> NoRow, threw |-> TRUE]
        ELSE [db |-> W3, item |-> getItemById(W3, id, userId), threw |-> FALSE]

\* db.deleteItem that also deletes the catalog rows at the item's natural key
deleteItemAndGear(D, id, userId) ==
    LET it == getItemById(D, id, userId)
        D1 == [D EXCEPT !.items = {i \in @ : ~(i.id = id /\ i.user_id = userId)},
                        !.gear_library =
                            {g \in @ : ~(/\ it.id # NULL
                                         /\ SameKey(g, userId, it.name, it.category, it.type,
                                                    it.weight))}]
    IN  [db |-> D1, changes |-> Cardinality(D.items) - Cardinality(D1.items)]

\* DELETE FROM items WHERE id = ? AND user_id = ?
deleteItem(D, id, userId) ==
    LET D1 == [D EXCEPT !.items = {i \in @ : ~(i.id = id /\ i.user_id = userId)}]
    IN  [db |-> D1, changes |-> Cardinality(D.items) - Cardinality(D1.items)]

clearItems(D, userId, listId) ==
    LET D1 == DeleteItemsOfList(D, userId, listId)
    IN  [db |-> D1, changes |-> Cardinality(D.items) - Cardinality(D1.items)]

\* db.upsertGear as a plain INSERT, without ON CONFLICT ... DO UPDATE
upsertGearInsertOnly(D, drv, userId, gear) ==
    LET id == D.seq.gear_library + 1
        row == [GearRow(userId, gear.name, OrElse(gear.description, EmptyText),
                        gear.category, gear.type, gear.weight, gear.defaultQty)
                   EXCEPT !.id = id]
    IN  [db |-> [D EXCEPT !.gear_library = @ \cup {row}, !.seq.gear_library = id],
         gear |-> row]

\* db.upsertGear
upsertGear(D, drv, userId, gear) ==
    LET D1 == UpsertGearRow(D, drv,
                  GearRow(userId, gear.name, OrElse(gear.description, EmptyText),
                          gear.category, gear.type, gear.weight, gear.defaultQty),
                  "gear")
    IN  [db |-> D1,
         gear |-> RowOf(GearsAt(D1, userId, gear.name, gear.category, gear.type, gear.weight))]

\* The EXISTS subquery of listGears without `AND i.list_id = ?`
InSomeList(D, g, listId) ==
    \E i \in D.items :
        /\ i.user_id = g.user_id
        /\ i.name = g.name
        /\ i.category = g.category
        /\ i.type = g.type
        /\ i.weight = g.weight

\* The EXISTS subquery of listGears
InCurrentList(D, g, listId) ==
    \E i \in D.items :
        /\ i.user_id = g.user_id
        /\ i.list_id = listId
        /\ i.name = g.name
        /\ i.category = g.category
        /\ i.type = g.type
        /\ i.weight = g.weight

listGears(D, userId, listId) ==
    {[id |-> g.id, inCurrentList |-> InCurrentList(D, g, listId)] :
        g \in {r \in D.gear_library : r.user_id = userId}}

getGearById(D, userId, gearId) ==
    RowOf({g \in D.gear_library : g.user_id = userId /\ g.id = gearId})

\* The catalog row deleted together with the items at its key
deleteGearAndItems(D, userId, gearId) ==
    LET gear == getGearById(D, userId, gearId)
        D1 == [D EXCEPT !.gear_library = {g \in @ : ~(g.user_id = userId /\ g.id = gearId)},
                        !.items =
                            {i \in @ : ~(/\ gear.id # NULL
                                         /\ SameKey(i, userId, gear.name, gear.category,
                                                    gear.type, gear.weight))}]
    IN  [db |-> D1, changes |-> Cardinality(D.gear_library) - Cardinality(D1.gear_library)]

deleteGearById(D, userId, gearId) ==
    LET D1 == [D EXCEPT !.gear_library = {g \in @ : ~(g.user_id = userId /\ g.id = gearId)}]
    IN  [db |-> D1, changes |-> Cardinality(D.gear_library) - Cardinality(D1.gear_library)]

\* INSERT INTO items (...) SELECT user_id, ?, name, [description,] category, type, weight, qty
\* FROM items WHERE user_id = ? AND list_id = ?, the rows taken in id order.
\* The Postgres statement names no description column, so the copy gets the
\* column default ''; the SQLite statement copies description.
RECURSIVE CopyItems(_, _, _, _, _)
CopyItems(D, drv, userId, newListId, todo) ==
    IF todo = {} THEN D
    ELSE LET src == CHOOSE i \in todo : \A j \in todo : i.id <= j.id
         IN  CopyItems(
                 InsertItem(D, src.user_id, newListId,
                     [name |-> src.name,
                      description |-> IF drv = "postgres" THEN EmptyText ELSE src.description,
                      category |-> src.category, type |-> src.type,
                      weight |-> src.weight, qty |-> src.qty]),
                 drv, userId, newListId, todo \ {src})

\* db.clonePackList without BEGIN and ROLLBACK: what ran before the failing
\* statement stays
clonePackListNoTx(D, drv, userId, sourceListId, name, fail) ==
    LET C1 == InsertPackList(D, userId, name)
        newListId == C1.seq.pack_lists
        C2 == CopyItems(C1, drv, userId, newListId,
                        {i \in C1.items : i.user_id = userId /\ i.list_id = sourceListId})
        reached == IF fail = 1 THEN D ELSE IF fail = 2 THEN C1 ELSE C2
    IN  IF fail # 0 THEN [db |-> reached, list |-> NULL, threw |-> TRUE]
        ELSE [db |-> C2, list |-> newListId, threw |-> FALSE]

\* db.clonePackList.  fail = k > 0: the k-th statement of the transaction
\* throws (2 statements, then COMMIT as the 3rd).
clonePackList(D, drv, userId, sourceListId, name, fail) ==
    LET C1 == InsertPackList(D, userId, name)
        newListId == C1.seq.pack_lists
        C2 == CopyItems(C1, drv, userId, newListId,
                        {i \in C1.items : i.user_id = userId /\ i.list_id = sourceListId})
        reached == IF fail = 1 THEN D ELSE IF fail = 2 THEN C1 ELSE C2
    IN  IF fail # 0 THEN [db |-> Rollback(D, reached, drv), list |-> NULL, threw |-> TRUE]
        ELSE [db |-> C2, list |-> newListId, threw |-> FALSE]

-----------------------------------------------------------------------------
(* The handlers of main(), each run without interruption: [db, status, ret] *)

Reply(D, status, ret) == [db |-> D, status |-> status, ret |-> ret]

\* res.status(status).json({ error }): the message is named by what it says
Refuse(D, status, error) == Reply(D, status, [id |-> NULL, error |-> error])

\* Number.isInteger(id) && id > 0, on ids that are whole numbers
ValidId(id) == id > 0

\* Number.isFinite, on the numbers a body carries here
IsFinite(n) == n \in Int

\* app.get("/api/lists")
GetLists(D, drv, userId) ==
    LET e == ensureDefaultList(D, drv, userId)
    IN  Reply(e.db, 200, [lists |-> listPackLists(e.db, userId), defaultListId |-> e.list])

\* app.get("/api/gears"); listId = 0 when the query names none
GetGears(D, drv, userId, qListId) ==
    LET e == ensureDefaultList(D, drv, userId)
        listId == IF qListId # 0 THEN qListId ELSE e.list
    IN  Reply(e.db, 200, [gears |-> listGears(e.db, userId, listId), defaultListId |-> e.list])

\* app.get("/api/items")
GetItems(D, drv, userId, qListId) ==
    LET e == ensureDefaultList(D, drv, userId)
        q == IF qListId # 0 THEN qListId ELSE e.list
        listId == IF ~ValidId(q) THEN e.list ELSE q
    IN  IF getPackListById(e.db, userId, listId).id = NULL
        THEN Reply(e.db, 404, [id |-> NULL, error |-> "no such list", defaultListId |-> e.list])
        ELSE Reply(e.db, 200, [items |-> listItems(e.db, userId, listId),
                               activeListId |-> listId, defaultListId |-> e.list])

\* app.post("/api/gears")
PostGears(D, drv, userId, body) ==
    LET name == Trim(body.name)
        description == Slice(Trim(body.description), 80)
        category == Trim(body.category)
        type == Trim(body.type)
        weight == body.weight
        defaultQty == IF body.qty # 0 THEN body.qty ELSE 10
        u == upsertGear(D, drv, userId,
                 [name |-> name, description |-> description, category |-> category,
                  type |-> type, weight |-> Round(weight), defaultQty |-> Round(defaultQty)])
    IN  IF name = EmptyText \/ category = EmptyText \/ type = EmptyText
        THEN Refuse(D, 400, "incomplete gear")
        ELSE IF type \notin ValidTypes THEN Refuse(D, 400, "bad type")
        ELSE IF ~IsFinite(weight) \/ weight <= 0 \/ ~IsFinite(defaultQty) \/ defaultQty <= 0
        THEN Refuse(D, 400, "weight and quantity must be positive")
        ELSE Reply(u.db, 201, u.gear)

\* The add-to-list handler without Math.max(1, ...) around the quantity
AddToListUnclamped(D, userId, gearId, listId, qty) ==
    LET gear == getGearById(D, userId, gearId)
        q == IF qty # 0 THEN qty ELSE IF gear.default_qty # 0 THEN 10 * gear.default_qty ELSE 10
        c == createItem(D, userId, listId,
                 [name |-> gear.name, description |-> OrElse(gear.description, EmptyText),
                  category |-> gear.category, type |-> gear.type, weight |-> gear.weight,
                  qty |-> Round(q)])
    IN  IF ~ValidId(gearId) THEN Refuse(D, 400, "invalid gear id")
        ELSE IF ~ValidId(listId) THEN Refuse(D, 400, "invalid list id")
        ELSE IF getPackListById(D, userId, listId).id = NULL THEN Refuse(D, 404, "no such list")
        ELSE IF gear.id = NULL THEN Refuse(D, 404, "no such gear")
        ELSE Reply(c.db, 201, c.item)

\* app.post("/api/gears/:id/add-to-list"); qty in tenths, 0 when the body names none
AddToList(D, userId, gearId, listId, qty) ==
    LET gear == getGearById(D, userId, gearId)
        q == IF qty # 0 THEN qty ELSE IF gear.default_qty # 0 THEN 10 * gear.default_qty ELSE 10
        c == createItem(D, userId, listId,
                 [name |-> gear.name, description |-> OrElse(gear.description, EmptyText),
                  category |-> gear.category, type |-> gear.type, weight |-> gear.weight,
                  qty |-> Max(1, Round(q))])
    IN  IF ~ValidId(gearId) THEN Refuse(D, 400, "invalid gear id")
        ELSE IF ~ValidId(listId) THEN Refuse(D, 400, "invalid list id")
        ELSE IF getPackListById(D, userId, listId).id = NULL THEN Refuse(D, 404, "no such list")
        ELSE IF gear.id = NULL THEN Refuse(D, 404, "no such gear")
        ELSE Reply(c.db, 201, c.item)

\* app.delete("/api/gears/:id")
DeleteGear(D, userId, gearId) ==
    LET d == deleteGearById(D, userId, gearId)
    IN  IF ~ValidId(gearId) THEN Refuse(D, 400, "invalid gear id")
        ELSE IF d.changes = 0 THEN Refuse(D, 404, "no such gear")
        ELSE Reply(d.db, 200, NoRow)

\* app.post("/api/lists")
PostLists(D, userId, rawName) ==
    LET name == Trim(rawName)
        c == createPackList(D, userId, Slice(name, 40))
    IN  IF name = EmptyText THEN Refuse(D, 400, "empty list name")
        ELSE Reply(c.db, 201, [id |-> c.list, lists |-> listPackLists(c.db, userId)])

\* app.post("/api/lists/:id/clone")
CloneList(D, drv, userId, sourceListId, rawName, fail) ==
    LET sourceList == getPackListById(D, userId, sourceListId)
        customName == Trim(rawName)
        cloneName == Slice(OrElse(customName, sourceList.name \o CopySuffix), 40)
        c == clonePackList(D, drv, userId, sourceListId, cloneName, fail)
    IN  IF ~ValidId(sourceListId) THEN Refuse(D, 400, "invalid list id")
        ELSE IF sourceList.id = NULL THEN Refuse(D, 404, "no such source list")
        ELSE IF c.threw THEN Refuse(c.db, 500, "clone failed")
        ELSE Reply(c.db, 201, [id |-> c.list, lists |-> listPackLists(c.db, userId)])

\* app.delete("/api/lists/:id") with `count < 1` for `count <= 1`
DeleteListOffByOne(D, userId, listId) ==
    LET d == deletePackList(D, userId, listId)
    IN  IF ~ValidId(listId) THEN Refuse(D, 400, "invalid list id")
        ELSE IF countPackLists(D, userId) < 1 THEN Refuse(D, 400, "keep at least one list")
        ELSE IF d.changes = 0 THEN Refuse(d.db, 404, "no such list")
        ELSE Reply(d.db, 200, [lists |-> listPackLists(d.db, userId)])

\* app.delete("/api/lists/:id")
DeleteList(D, userId, listId) ==
    LET d == deletePackList(D, userId, listId)
    IN  IF ~ValidId(listId) THEN Refuse(D, 400, "invalid list id")
        ELSE IF countPackLists(D, userId) <= 1 THEN Refuse(D, 400, "keep at least one list")
        ELSE IF d.changes = 0 THEN Refuse(d.db, 404, "no such list")
        ELSE Reply(d.db, 200, [lists |-> listPackLists(d.db, userId)])

\* app.post("/api/items") without its call of db.upsertGear
PostItemsNoGear(D, drv, userId, listId, body) ==
    LET name == Trim(body.name)
        description == Trim(body.description)
        category == Trim(OrElse(body.category, Uncategorized))
        type == Trim(OrElse(body.type, BASE))
        weight == body.weight
        qty == body.qty
        c == createItem(D, userId, listId,
                 [name |-> name, description |-> OrElse(description, EmptyText),
                  category |-> category, type |-> type,
                  weight |-> Round(weight), qty |-> Round(qty)])
    IN  IF ~ValidId(listId) THEN Refuse(D, 400, "choose a valid list")
        ELSE IF name = EmptyText \/ category = EmptyText \/ type = EmptyText
        THEN Refuse(D, 400, "incomplete gear")
        ELSE IF type \notin ValidTypes THEN Refuse(D, 400, "bad type")
        ELSE IF ~IsFinite(weight) \/ ~IsFinite(qty) \/ weight <= 0 \/ qty <= 0
        THEN Refuse(D, 400, "weight and quantity must be positive")
        ELSE IF getPackListById(D, userId, listId).id = NULL THEN Refuse(D, 404, "no such list")
        ELSE Reply(c.db, 201, c.item)

\* app.post("/api/items")
PostItems(D, drv, userId, listId, body) ==
    LET name == Trim(body.name)
        description == Trim(body.description)
        category == Trim(OrElse(body.category, Uncategorized))
        type == Trim(OrElse(body.type, BASE))
        weight == body.weight
        qty == body.qty
        u == upsertGear(D, drv, userId,
                 [name |-> name, description |-> description, category |-> category,
                  type |-> type, weight |-> Round(weight), defaultQty |-> Round(qty)])
        c == createItem(u.db, userId, listId,
                 [name |-> name, description |-> OrElse(description, EmptyText),
                  category |-> category, type |-> type,
                  weight |-> Round(weight), qty |-> Round(qty)])
    IN  IF ~ValidId(listId) THEN Refuse(D, 400, "choose a valid list")
        ELSE IF name = EmptyText \/ category = EmptyText \/ type = EmptyText
        THEN Refuse(D, 400, "incomplete gear")
        ELSE IF type \notin ValidTypes THEN Refuse(D, 400, "bad type")
        ELSE IF ~IsFinite(weight) \/ ~IsFinite(qty) \/ weight <= 0 \/ qty <= 0
        THEN Refuse(D, 400, "weight and quantity must be positive")
        ELSE IF getPackListById(D, userId, listId).id = NULL THEN Refuse(D, 404, "no such list")
        ELSE Reply(c.db, 201, c.item)

\* app.delete("/api/items/:id")
DeleteItem(D, userId, id) ==
    LET d == deleteItem(D, id, userId)
    IN  IF ~ValidId(id) THEN Refuse(D, 400, "invalid item id")
        ELSE IF d.changes = 0 THEN Refuse(D, 404, "no such item")
        ELSE Reply(d.db, 200, NoRow)

\* app.delete("/api/items")
ClearItems(D, userId, listId) ==
    LET d == clearItems(D, userId, listId)
    IN  IF ~ValidId(listId) THEN Refuse(D, 400, "choose a valid list")
        ELSE IF getPackListById(D, userId, listId).id = NULL THEN Refuse(D, 404, "no such list")
        ELSE Reply(d.db, 200, [deleted |-> d.changes])

\* The four steps of app.patch("/api/items/:id"), each on the reply so far:
\* a step is skipped once a reply has been sent (status # 0).
PatchType(r, userId, id, body) ==
    LET type == Trim(body.type)
        u == updateItemType(r.db, id, userId, type)
    IN  IF r.status # 0 \/ "type" \notin body.has THEN r
        ELSE IF type \notin ValidTypes THEN Refuse(r.db, 400, "bad type")
        ELSE IF u.item.id = NULL THEN Refuse(u.db, 404, "no such item")
        ELSE Reply(u.db, 0, u.item)

PatchWeight(r, drv, userId, id, body, fail) ==
    LET weight == Round(body.weight)
        u == updateItemWeightAndSync(r.db, drv, id, userId, weight, fail)
    IN  IF r.status # 0 \/ "weight" \notin body.has THEN r
        ELSE IF ~IsFinite(weight) \/ weight <= 0 THEN Refuse(r.db, 400, "weight must be positive")
        ELSE IF u.threw THEN Refuse(u.db, 500, "update failed")
        ELSE Reply(u.db, 0, u.item)

PatchCategory(r, userId, id, body) ==
    LET category == Trim(body.category)
        u == updateItemCategory(r.db, id, userId, Slice(category, 20))
    IN  IF r.status # 0 \/ "category" \notin body.has THEN r
        ELSE IF category = EmptyText THEN Refuse(r.db, 400, "empty category")
        ELSE Reply(u.db, 0, u.item)

PatchDescription(r, userId, id, body) ==
    LET description == Slice(Trim(body.description), 80)
        u == updateItemDescriptionAndSync(r.db, id, userId, description)
    IN  IF r.status # 0 \/ "description" \notin body.has THEN r
        ELSE Reply(u.db, 0, u.item)

\* The PATCH handler with the category applied before the weight
PatchItemCategoryFirst(D, drv, userId, id, body, fail) ==
    LET item == getItemById(D, id, userId)
        r1 == PatchType(Reply(D, 0, item), userId, id, body)
        r2 == PatchCategory(r1, userId, id, body)
        r3 == PatchDescription(r2, userId, id, body)
        r4 == PatchWeight(r3, drv, userId, id, body, fail)
    IN  IF ~ValidId(id) THEN Refuse(D, 400, "invalid item id")
        ELSE IF body.has \cap {"type", "weight", "category", "description"} = {}
        THEN Refuse(D, 400, "no field to update")
        ELSE IF item.id = NULL THEN Refuse(D, 404, "no such item")
        ELSE IF r4.status # 0 THEN r4
        ELSE IF r4.ret.id = NULL THEN Refuse(r4.db, 404, "no such item")
        ELSE Reply(r4.db, 200, r4.ret)

\* app.patch("/api/items/:id"); body.has is the set of fields the body owns
PatchItem(D, drv, userId, id, body, fail) ==
    LET item == getItemById(D, id, userId)
        r1 == PatchType(Reply(D, 0, item), userId, id, body)
        r2 == PatchWeight(r1, drv, userId, id, body, fail)
        r3 == PatchCategory(r2, userId, id, body)
        r4 == PatchDescription(r3, userId, id, body)
    IN  IF ~ValidId(id) THEN Refuse(D, 400, "invalid item id")
        ELSE IF body.has \cap {"type", "weight", "category", "description"} = {}
        THEN Refuse(D, 400, "no field to update")
        ELSE IF item.id = NULL THEN Refuse(D, 404, "no such item")
        ELSE IF r4.status # 0 THEN r4
        ELSE IF r4.ret.id = NULL THEN Refuse(r4.db, 404, "no such item")
        ELSE Reply(r4.db, 200, r4.ret)

-----------------------------------------------------------------------------
(* Requests.  Spec serves each request without interruption: what happens  *)
(* under the SQLite driver, whose methods never wait, and under either     *)
(* driver when requests do not overlap.                                    *)

Note == <<"n", "o", "t", "e">>
BadType == <<"h", "a", "t">>
Trip == <<"t", "r", "i", "p">>

Fields == {"type", "weight", "category", "description"}

\* Bodies of POST /api/items and POST /api/gears (qty is defaultQty there)
ItemBodies ==
    {b \in [name : {Tent, EmptyText}, description : {EmptyText, Note},
            category : {SleepSystem}, type : {BASE}, weight : {0, 9200}, qty : {10, 20}] :
        (b.name = EmptyText \/ b.weight = 0) => (b.description = EmptyText /\ b.qty = 10)}

\* Bodies at the edges of the checks: a weight of 0.4 g, and texts one
\* character longer than the description (80) and category (20) limits
LongNote == [k \in 1..81 |-> "x"]

LongLabel == [k \in 1..21 |-> "y"]

EdgeBodies ==
    {[name |-> Tent, description |-> EmptyText, category |-> SleepSystem, type |-> BASE,
      weight |-> 4, qty |-> 10],
     [name |-> Tent, description |-> LongNote, category |-> LongLabel, type |-> BASE,
      weight |-> 9200, qty |-> 10]}

\* Bodies of PATCH /api/items/:id; a field the body does not own is left at
\* a fixed value, which the handler never reads.  The client also sends qty,
\* a field the handler does not look at.
PatchBodies ==
    {b \in [has : SUBSET (Fields \cup {"qty"}), type : {WORN, BadType}, weight : {0, 9200, 12800},
            category : {Other, EmptyText}, description : {Note, EmptyText}, qty : {30}] :
        /\ Cardinality(b.has) <= MaxPatchFields
        /\ "type" \notin b.has => b.type = WORN
        /\ "weight" \notin b.has => b.weight = 0
        /\ "category" \notin b.has => b.category = Other
        /\ "description" \notin b.has => b.description = Note}

\* Bodies that own two fields, the second of them valid or not
MixedPatchBodies ==
    {b \in [has : {{"type", "weight"}, {"weight", "category"}, {"weight", "description"}},
            type : {WORN},
            weight : {0, 9200}, category : {Other, EmptyText}, description : {Note},
            qty : {30}] :
        /\ "category" \notin b.has => b.category = Other
        /\ "category" \in b.has => b.weight = 9200}

ListNames == {Trip, EmptyText}

\* Requests that run ensureDefaultList and report the list it returned
EnsureOps == {"getLists", "getGears", "getItems"}

NoRequest == [op |-> "none", user |-> 0, arg |-> NoRow, status |-> 0, ret |-> NoRow,
              prevDefault |-> NULL]

\* A database of the revision before pack lists: an item row without list_id
LegacyDb ==
    [EmptyDb EXCEPT
        !.items = {[id |-> 1, user_id |-> 1, list_id |-> NULL, name |-> Tent,
                    description |-> EmptyText, category |-> SleepSystem, type |-> BASE,
                    weight |-> 920, qty |-> 1]},
        !.seq.items = 1]

Idle == [pc |-> "idle", tx |-> [open |-> FALSE]]

Procs == 1..MaxConc

\* A database in use: two lists, the same gear at two weights
PackedDb(drv) ==
    LET d1 == ensureDefaultList(EmptyDb, drv, 1).db
        d2 == createPackList(d1, 1, Trip).db
    IN  PostItems(d2, drv, 1, 2,
                  [name |-> Tent, description |-> EmptyText, category |-> SleepSystem,
                   type |-> BASE, weight |-> 9200, qty |-> 10]).db

\* The same database with the gear also in another category of the second list
SharedDb(drv) ==
    PostItems(PackedDb(drv), drv, 1, 2,
              [name |-> Tent, description |-> EmptyText, category |-> Other,
               type |-> BASE, weight |-> 12800, qty |-> 20]).db

\* The accounts of a server on which nobody asked for a reset code
NoCall == [pc |-> "idle"]

NoAuth == [password_hash |-> 0, password_resets |-> {}, lock |-> 0, started |-> 0,
           calls |-> [p \in 1..MaxConc |-> NoCall], returned |-> {}]

\* What the page shows before any item is on it
NothingRendered == [totals |-> [total |-> 0, base |-> 0], baseWeight |-> 0, totalWeight |-> 0]

\* The databases a server may open: a new one, one of the older revision,
\* ones in which the second user, or both users, already fetched their
\* lists, and one in use
StoredDbs(drv) ==
    LET other == ensureDefaultList(EmptyDb, drv, 2).db
    IN  {EmptyDb, LegacyDb, other, ensureDefaultList(other, drv, 1).db, SharedDb(drv)}

Init ==
    /\ driver \in {"postgres", "sqlite"}
    /\ db \in StoredDbs(driver)
    /\ last = NoRequest
    /\ pre = Tables(db)
    /\ cloned = {}
    /\ reqs = [p \in Procs |-> Idle]
    /\ steps = 0
    /\ state = [items |-> <<>>]
    /\ rendered = NothingRendered
    /\ auth = NoAuth

Serve(op, userId, arg, r) ==
    /\ steps < MaxSteps
    /\ steps' = steps + 1
    /\ db' = r.db
    /\ pre' = Tables(db)
    /\ last' = [op |-> op, user |-> userId, arg |-> arg, status |-> r.status, ret |-> r.ret,
                prevDefault |-> IF last.op \in EnsureOps /\ last.user = userId
                                THEN last.ret.defaultListId ELSE NULL]
    /\ cloned' = IF op = "cloneList" /\ r.status = 201
                 THEN cloned \cup {<<arg.id, r.ret.id>>} ELSE cloned
    /\ UNCHANGED <<driver, reqs, state, rendered, auth>>

ListIdsIn == 0..db.seq.pack_lists
ItemIdsIn == 0..db.seq.items
GearIdsIn == 0..db.seq.gear_library

ReqGetLists ==
    \E u \in Actors : Serve("getLists", u, NoRow, GetLists(db, driver, u))

ReqGetGears ==
    \E u \in Actors, l \in ListIdsIn :
        Serve("getGears", u, [id |-> l], GetGears(db, driver, u, l))

ReqGetItems ==
    \E u \in Actors, l \in ListIdsIn :
        Serve("getItems", u, [id |-> l], GetItems(db, driver, u, l))

ReqPostGears ==
    \E u \in Actors, b \in ItemBodies \cup EdgeBodies :
        Serve("postGears", u, [id |-> 0, body |-> b], PostGears(db, driver, u, b))

ReqAddToList ==
    \E u \in Actors, g \in GearIdsIn, l \in ListIdsIn, q \in {0, 4, 20} :
        Serve("addToList", u, [id |-> g, listId |-> l, qty |-> q], AddToList(db, u, g, l, q))

ReqDeleteGear ==
    \E u \in Actors, g \in GearIdsIn :
        Serve("deleteGear", u, [id |-> g], DeleteGear(db, u, g))

ReqPostLists ==
    \E u \in Actors, n \in ListNames :
        Serve("postLists", u, [id |-> 0, name |-> n], PostLists(db, u, n))

ReqCloneList ==
    \E u \in Actors, l \in ListIdsIn, n \in ListNames, fail \in 0..2 :
        Serve("cloneList", u, [id |-> l, name |-> n, fail |-> fail],
              CloneList(db, driver, u, l, n, fail))

ReqDeleteList ==
    \E u \in Actors, l \in ListIdsIn :
        Serve("deleteList", u, [id |-> l], DeleteList(db, u, l))

ReqPostItems ==
    \E u \in Actors, l \in ListIdsIn, b \in ItemBodies \cup EdgeBodies :
        Serve("postItems", u, [id |-> l, body |-> b], PostItems(db, driver, u, l, b))

ReqDeleteItem ==
    \E u \in Actors, i \in ItemIdsIn :
        Serve("deleteItem", u, [id |-> i], DeleteItem(db, u, i))

ReqClearItems ==
    \E u \in Actors, l \in ListIdsIn :
        Serve("clearItems", u, [id |-> l], ClearItems(db, u, l))

ReqPatchItem ==
    \E u \in Actors, i \in ItemIdsIn, b \in PatchBodies \cup MixedPatchBodies :
        \E fail \in IF "weight" \in b.has /\ b.weight > 0 THEN 0..3 ELSE {0} :
            Serve("patchItem", u, [id |-> i, body |-> b, fail |-> fail],
                  PatchItem(db, driver, u, i, b, fail))

Next ==
    \/ ReqGetLists
    \/ ReqGetGears
    \/ ReqGetItems
    \/ ReqPostGears
    \/ ReqAddToList
    \/ ReqDeleteGear
    \/ ReqPostLists
    \/ ReqCloneList
    \/ ReqDeleteList
    \/ ReqPostItems
    \/ ReqDeleteItem
    \/ ReqClearItems
    \/ ReqPatchItem

Spec == Init /\ [][Next]_vars

-----------------------------------------------------------------------------
(* Requests that overlap.  A handler gives way at each `await`.  Under the *)
(* Postgres driver every pool.query and client.query is such a point: a    *)
(* step below is one statement, with the handler's own code around it.     *)
(* The SQLite driver's methods run to their end without waiting, and an    *)
(* await of their settled promise resumes before any other request is      *)
(* looked at: a handler is then one step.                                  *)

\* A transaction's uncommitted writes: row versions put, row ids deleted
NoTx == [open |-> FALSE, put_items |-> {}, del_items |-> {}, put_gears |-> {}, del_gears |-> {}]

Ids(S) == {r.id : r \in S}

\* What a statement of the transaction reads (READ COMMITTED): the committed
\* rows, under the transaction's own writes
View(D, tx) ==
    [D EXCEPT !.items = {i \in @ : i.id \notin Ids(tx.put_items) \cup tx.del_items}
                            \cup tx.put_items,
              !.gear_library = {g \in @ : g.id \notin Ids(tx.put_gears) \cup tx.del_gears}
                                   \cup tx.put_gears]

\* The uncommitted writes that lead from the committed rows D to the view V
Delta(D, V) ==
    [open |-> TRUE,
     put_items |-> V.items \ D.items,
     del_items |-> Ids(D.items) \ Ids(V.items),
     put_gears |-> V.gear_library \ D.gear_library,
     del_gears |-> Ids(D.gear_library) \ Ids(V.gear_library)]

KeyOf(g) == <<g.user_id, g.name, g.category, g.type, g.weight>>

\* Rows a statement taking V to W updates or deletes, and catalog keys it inserts
WrittenItems(V, W) == Ids(V.items \ W.items)
WrittenGears(V, W) == Ids(V.gear_library \ W.gear_library)
InsertedKeys(V, W) == {KeyOf(g) : g \in {r \in W.gear_library : r.id \notin Ids(V.gear_library)}}

\* Row locks and uncommitted unique-index entries of an open transaction
LockedItems(tx) == Ids(tx.put_items) \cup tx.del_items
LockedGears(tx) == Ids(tx.put_gears) \cup tx.del_gears
PendingKeys(tx) == {KeyOf(g) : g \in tx.put_gears}

NoLocals == [list |-> NULL, k |-> 0, item |-> NoRow, cur |-> NoRow]

Request(op, userId, arg, pc) ==
    [op |-> op, user |-> userId, arg |-> arg, pc |-> pc, loc |-> NoLocals, tx |-> NoTx,
     status |-> 0, ret |-> NoRow]

Done(r, status, ret) == [r EXCEPT !.pc = "done", !.status = status, !.ret = ret, !.tx = NoTx]

Sent(r, reply) == Done(r, reply.status, reply.ret)

Failed(r, status, error) == Done(r, status, [id |-> NULL, error |-> error])

\* One step: the rows after it, the request after it, and whether the
\* statement ran in autocommit ("auto"), inside the transaction ("tx"), or
\* was its COMMIT or ROLLBACK
Stepped(D, r, mode) == [db |-> D, req |-> r, mode |-> mode]

Goto(r, pc) == [r EXCEPT !.pc = pc]

\* ensureDefaultList, statement by statement; `then` is where its caller goes on
EnsureStep(V, r, then) ==
    LET u == r.user
        l == r.loc.list
        k == r.loc.k
    IN  CASE r.pc = "select" ->
                LET existing == SelectFirstList(V, u)
                IN  IF existing # NULL
                    THEN Stepped(V, [Goto(r, "repair") EXCEPT !.loc.list = existing], "auto")
                    ELSE Stepped(V, Goto(r, "insertList"), "auto")
          [] r.pc = "insertList" ->
                LET V1 == InsertPackList(V, u, defaultListName)
                IN  Stepped(V1, [Goto(r, IF Len(SeedRows) > 0 THEN "seedGear" ELSE "repair")
                                    EXCEPT !.loc.list = V1.seq.pack_lists, !.loc.k = 1], "auto")
          [] r.pc = "seedGear" ->
                Stepped(UpsertSeedGear(V, "postgres", u, SeedRows[k]), Goto(r, "seedItem"), "auto")
          [] r.pc = "seedItem" ->
                Stepped(InsertSeedItem(V, u, l, SeedRows[k]),
                        [Goto(r, IF k < Len(SeedRows) THEN "seedGear" ELSE "repair")
                            EXCEPT !.loc.k = k + 1], "auto")
          [] r.pc = "repair" ->
                Stepped(RepairListless(V, u, l), Goto(r, then), "auto")

\* app.get("/api/lists")
GetListsStep(V, r) ==
    IF r.pc = "listLists"
    THEN Stepped(V, Done(r, 200, [lists |-> listPackLists(V, r.user),
                                  defaultListId |-> r.loc.list]), "auto")
    ELSE EnsureStep(V, r, "listLists")

\* app.post("/api/lists")
PostListsStep(V, r) ==
    CASE r.pc = "insertList" ->
            LET c == createPackList(V, r.user, Slice(Trim(r.arg.name), 40))
            IN  Stepped(c.db, [Goto(r, "listLists") EXCEPT !.loc.list = c.list], "auto")
      [] r.pc = "listLists" ->
            Stepped(V, Done(r, 201, [id |-> r.loc.list, lists |-> listPackLists(V, r.user)]),
                    "auto")

\* app.delete("/api/lists/:id")
DeleteListStep(V, r) ==
    CASE r.pc = "count" ->
            IF countPackLists(V, r.user) <= 1
            THEN Stepped(V, Failed(r, 400, "keep at least one list"), "auto")
            ELSE Stepped(V, Goto(r, "deleteItems"), "auto")
      [] r.pc = "deleteItems" ->
            Stepped(DeleteItemsOfList(V, r.user, r.arg.id), Goto(r, "deleteList"), "auto")
      [] r.pc = "deleteList" ->
            LET V1 == DeleteListRow(V, r.user, r.arg.id)
            IN  IF V1.pack_lists = V.pack_lists
                THEN Stepped(V1, Failed(r, 404, "no such list"), "auto")
                ELSE Stepped(V1, Goto(r, "listLists"), "auto")
      [] r.pc = "listLists" ->
            Stepped(V, Done(r, 200, [lists |-> listPackLists(V, r.user)]), "auto")

\* The gear and the item POST /api/items writes
GearOfBody(b) ==
    [name |-> Trim(b.name), description |-> Trim(b.description),
     category |-> Trim(OrElse(b.category, Uncategorized)), type |-> Trim(OrElse(b.type, BASE)),
     weight |-> Round(b.weight), defaultQty |-> Round(b.qty)]

ItemOfBody(b) ==
    [name |-> Trim(b.name), description |-> OrElse(Trim(b.description), EmptyText),
     category |-> Trim(OrElse(b.category, Uncategorized)), type |-> Trim(OrElse(b.type, BASE)),
     weight |-> Round(b.weight), qty |-> Round(b.qty)]

\* app.post("/api/items")
PostItemsStep(V, r) ==
    CASE r.pc = "getList" ->
            IF getPackListById(V, r.user, r.arg.id).id = NULL
            THEN Stepped(V, Failed(r, 404, "no such list"), "auto")
            ELSE Stepped(V, Goto(r, "upsertGear"), "auto")
      [] r.pc = "upsertGear" ->
            Stepped(upsertGear(V, "postgres", r.user, GearOfBody(r.arg.body)).db,
                    Goto(r, "createItem"), "auto")
      [] r.pc = "createItem" ->
            LET c == createItem(V, r.user, r.arg.id, ItemOfBody(r.arg.body))
            IN  Stepped(c.db, Done(r, 201, c.item), "auto")

\* app.delete("/api/gears/:id")
DeleteGearStep(V, r) ==
    LET d == deleteGearById(V, r.user, r.arg.id)
    IN  IF d.changes = 0 THEN Stepped(V, Failed(r, 404, "no such gear"), "auto")
        ELSE Stepped(d.db, Done(r, 200, NoRow), "auto")

\* The first statement of the next field the PATCH body owns, in the
\* handler's order, or the reply when no field is left
FieldOrder == <<"type", "weight", "category", "description">>
FieldPc == <<"type", "wSelect", "category", "dSelect">>

Proceed(V, r, item, k, mode) ==
    LET rest == {j \in (k + 1)..Len(FieldOrder) : FieldOrder[j] \in r.arg.body.has}
    IN  IF rest # {}
        THEN Stepped(V, [Goto(r, FieldPc[MinOf(rest)]) EXCEPT !.loc.item = item], mode)
        ELSE IF item.id = NULL THEN Stepped(V, Failed(r, 404, "no such item"), mode)
        ELSE Stepped(V, Done(r, 200, item), mode)

\* app.patch("/api/items/:id"), with updateItemWeightAndSync and
\* updateItemDescriptionAndSync of createPostgresDb statement by statement
PatchItemStep(V, r) ==
    LET b == r.arg.body
        id == r.arg.id
        u == r.user
        cur == r.loc.cur
        type == Trim(b.type)
        weight == Round(b.weight)
        category == Trim(b.category)
        description == Slice(Trim(b.description), 80)
        it == getItemById(V, id, u)
    IN  CASE r.pc = "getItem" ->
                IF it.id = NULL THEN Stepped(V, Failed(r, 404, "no such item"), "auto")
                ELSE Proceed(V, r, it, 0, "auto")
          [] r.pc = "type" ->
                LET x == updateItemType(V, id, u, type)
                IN  IF type \notin ValidTypes THEN Stepped(V, Failed(r, 400, "bad type"), "auto")
                    ELSE IF x.item.id = NULL
                    THEN Stepped(x.db, Failed(r, 404, "no such item"), "auto")
                    ELSE Proceed(x.db, r, x.item, 1, "auto")
          [] r.pc = "wSelect" ->
                IF ~IsFinite(weight) \/ weight <= 0
                THEN Stepped(V, Failed(r, 400, "weight must be positive"), "auto")
                ELSE IF it.id = NULL \/ it.weight = weight THEN Proceed(V, r, it, 2, "auto")
                ELSE Stepped(V, [Goto(r, "wItems") EXCEPT !.loc.cur = it], "auto")
          [] r.pc = "wItems" ->
                Stepped(UpdateItemWeights(V, u, cur, weight), Goto(r, "wGear"), "tx")
          [] r.pc = "wGear" ->
                Stepped(MergeGearAtNewWeight(V, "postgres", u, cur, weight),
                        Goto(r, "wDelete"), "tx")
          [] r.pc = "wDelete" ->
                Stepped(DeleteGearAtOldWeight(V, "postgres", u, cur, weight),
                        Goto(r, "wCommit"), "tx")
          [] r.pc = "wCommit" -> Stepped(V, Goto(r, "wReread"), "commit")
          [] r.pc = "wReread" -> Proceed(V, r, it, 2, "auto")
          [] r.pc = "category" ->
                LET x == updateItemCategory(V, id, u, Slice(category, 20))
                IN  IF category = EmptyText
                    THEN Stepped(V, Failed(r, 400, "empty category"), "auto")
                    ELSE Proceed(x.db, r, x.item, 3, "auto")
          [] r.pc = "dSelect" ->
                IF it.id = NULL THEN Proceed(V, r, it, 4, "auto")
                ELSE Stepped(V, [Goto(r, "dItems") EXCEPT !.loc.cur = it], "auto")
          [] r.pc = "dItems" ->
                Stepped(UpdateItemDescriptions(V, u, cur, description), Goto(r, "dGear"), "auto")
          [] r.pc = "dGear" ->
                Stepped(UpdateGearDescriptions(V, u, cur, description), Goto(r, "dReread"), "auto")
          [] r.pc = "dReread" -> Proceed(V, r, it, 4, "auto")

\* One statement of a request under the Postgres driver
PgStep(V, r) ==
    CASE r.op = "getLists" -> GetListsStep(V, r)
      [] r.op = "postLists" -> PostListsStep(V, r)
      [] r.op = "deleteList" -> DeleteListStep(V, r)
      [] r.op = "postItems" -> PostItemsStep(V, r)
      [] r.op = "postGears" -> Stepped(PostGears(V, "postgres", r.user, r.arg.body).db,
                                       Sent(r, PostGears(V, "postgres", r.user, r.arg.body)),
                                       "auto")
      [] r.op = "deleteGear" -> DeleteGearStep(V, r)
      [] r.op = "patchItem" -> PatchItemStep(V, r)

\* A whole handler, as the SQLite driver runs it
Handle(D, r) ==
    CASE r.op = "getLists" -> GetLists(D, "sqlite", r.user)
      [] r.op = "postLists" -> PostLists(D, r.user, r.arg.name)
      [] r.op = "deleteList" -> DeleteList(D, r.user, r.arg.id)
      [] r.op = "postItems" -> PostItems(D, "sqlite", r.user, r.arg.id, r.arg.body)
      [] r.op = "postGears" -> PostGears(D, "sqlite", r.user, r.arg.body)
      [] r.op = "deleteGear" -> DeleteGear(D, r.user, r.arg.id)
      [] r.op = "patchItem" -> PatchItem(D, "sqlite", r.user, r.arg.id, r.arg.body, 0)

\* The handler's code before its first statement: a request it refuses
\* there never reaches the database
FirstPc(op) ==
    CASE op = "getLists" -> "select"
      [] op = "postLists" -> "insertList"
      [] op = "deleteList" -> "count"
      [] op = "postItems" -> "getList"
      [] op = "postGears" -> "upsertGear"
      [] op = "deleteGear" -> "delete"
      [] op = "patchItem" -> "getItem"

Early(op, userId, arg) ==
    CASE op = "getLists" -> Reply(EmptyDb, 0, NoRow)
      [] op = "postLists" ->
            IF Trim(arg.name) = EmptyText THEN Refuse(EmptyDb, 400, "empty list name")
            ELSE Reply(EmptyDb, 0, NoRow)
      [] op = "deleteList" ->
            IF ~ValidId(arg.id) THEN Refuse(EmptyDb, 400, "invalid list id")
            ELSE Reply(EmptyDb, 0, NoRow)
      [] op = "deleteGear" ->
            IF ~ValidId(arg.id) THEN Refuse(EmptyDb, 400, "invalid gear id")
            ELSE Reply(EmptyDb, 0, NoRow)
      [] op = "patchItem" ->
            IF ~ValidId(arg.id) THEN Refuse(EmptyDb, 400, "invalid item id")
            ELSE IF arg.body.has \cap Fields = {} THEN Refuse(EmptyDb, 400, "no field to update")
            ELSE Reply(EmptyDb, 0, NoRow)
      \* the checks of these two handlers are all made before their first
      \* statement: with no rows to find, a 400 is one of them
      [] op = "postItems" -> PostItems(EmptyDb, "postgres", userId, arg.id, arg.body)
      [] op = "postGears" -> PostGears(EmptyDb, "postgres", userId, arg.body)

Accept(op, userId, arg) ==
    LET r == Request(op, userId, arg, FirstPc(op))
        early == Early(op, userId, arg)
    IN  IF early.status = 400 THEN Sent(r, early) ELSE r

ConcItemBodies ==
    {b \in ItemBodies : b.name # EmptyText /\ b.weight > 0 /\ b.qty = 20 /\ b.description = Note}

ConcPatchBodies ==
    {b \in PatchBodies : \/ b.has = {"weight"} /\ b.weight # 0
                         \/ b.has = {"description"} /\ b.description = Note}

\* The requests that may arrive
Arrivals ==
    [op : {"getLists"}, arg : {NoRow}]
    \cup [op : {"postLists"}, arg : [id : {0}, name : {Trip}]]
    \cup [op : {"deleteList"}, arg : [id : ListIdsIn \ {0}]]
    \cup [op : {"postItems"}, arg : [id : ListIdsIn \ {0}, body : ConcItemBodies]]
    \cup [op : {"postGears"}, arg : [id : {0}, body : ConcItemBodies]]
    \cup [op : {"deleteGear"}, arg : [id : GearIdsIn \ {0}]]
    \cup [op : {"patchItem"}, arg : [id : ItemIdsIn \ {0}, body : ConcPatchBodies]]

InitConc ==
    /\ driver \in {"postgres", "sqlite"}
    /\ db \in {EmptyDb, PackedDb(driver)}
    /\ last = NoRequest
    /\ pre = Tables(db)
    /\ cloned = {}
    /\ reqs = [p \in Procs |-> Idle]
    /\ steps = 0
    /\ state = [items |-> <<>>]
    /\ rendered = NothingRendered
    /\ auth = NoAuth

Running(p) == reqs[p].pc \notin {"idle", "done"}

\* The request p's next statement must wait for: one whose transaction
\* holds a row the statement writes, or a key the statement inserts
WaitsFor(p, q) ==
    LET r == reqs[p]
        V == IF r.tx.open THEN View(db, r.tx) ELSE db
        W == PgStep(V, r).db
        tx == reqs[q].tx
    IN  /\ p # q
        /\ Running(p)
        /\ Running(q)
        /\ tx.open
        /\ \/ WrittenItems(V, W) \cap LockedItems(tx) # {}
           \/ WrittenGears(V, W) \cap LockedGears(tx) # {}
           \/ InsertedKeys(V, W) \cap PendingKeys(tx) # {}

Blocked(p) == \E q \in Procs : WaitsFor(p, q)

RECURSIVE Waited(_, _)
Waited(S, n) ==
    IF n = 0 THEN S
    ELSE Waited(S \cup {q \in Procs : \E w \in S : WaitsFor(w, q)}, n - 1)

\* p waits, directly or through others, for a request that waits for p
Deadlocked(p) ==
    \E q \in Procs : WaitsFor(p, q) /\ p \in Waited({x \in Procs : WaitsFor(q, x)}, MaxConc)

\* A request arrives and its handler runs up to its first statement
Arrive(p) ==
    /\ steps < MaxStarts
    /\ ~Running(p)
    /\ \E u \in Actors, a \in Arrivals :
          reqs' = [reqs EXCEPT ![p] = Accept(a.op, u, a.arg)]
    /\ steps' = steps + 1
    /\ UNCHANGED <<driver, db, last, pre, cloned, state, rendered, auth>>

\* SQLite: the handler of a request runs to its reply
RunHandler(p) ==
    /\ driver = "sqlite"
    /\ Running(p)
    /\ LET h == Handle(db, reqs[p])
       IN  /\ db' = h.db
           /\ reqs' = [reqs EXCEPT ![p] = Sent(@, h)]
    /\ UNCHANGED <<driver, last, pre, cloned, steps, state, rendered, auth>>

\* Postgres: the next statement of a request runs
RunStatement(p) ==
    /\ driver = "postgres"
    /\ Running(p)
    /\ ~Blocked(p)
    /\ LET r == reqs[p]
           V == IF r.tx.open THEN View(db, r.tx) ELSE db
           s == PgStep(V, r)
       IN  /\ db' = CASE s.mode = "auto" -> s.db
                      [] s.mode = "tx" -> [db EXCEPT !.seq = s.db.seq]
                      [] s.mode = "commit" -> V
           /\ reqs' = [reqs EXCEPT ![p] =
                          IF s.mode = "tx" THEN [s.req EXCEPT !.tx = Delta(db, s.db)]
                          ELSE [s.req EXCEPT !.tx = NoTx]]
    /\ UNCHANGED <<driver, last, pre, cloned, steps, state, rendered, auth>>

\* Postgres ends a deadlock by failing a statement of one transaction in
\* it: the catch block rolls back and the handler replies 500
BreakDeadlock(p) ==
    /\ driver = "postgres"
    /\ Running(p)
    /\ reqs[p].tx.open
    /\ Deadlocked(p)
    /\ reqs' = [reqs EXCEPT ![p] = Failed(@, 500, "update failed")]
    /\ UNCHANGED <<driver, db, last, pre, cloned, steps, state, rendered, auth>>

NextConc ==
    \E p \in Procs :
        \/ Arrive(p)
        \/ RunHandler(p)
        \/ RunStatement(p)
        \/ BreakDeadlock(p)

SpecConc == InitConc /\ [][NextConc]_vars

-----------------------------------------------------------------------------
(* What the last request found and left *)

PreItem(id) == RowOf({i \in pre.items : i.id = id})

ListsOf(T, userId) == {l.id : l \in {r \in T.pack_lists : r.user_id = userId}}

ItemsIn(T, listId) == {i \in T.items : i.list_id = listId}

PatchedFields == last.arg.body.has \cap Fields

\* The last request was a PATCH of the weight alone, of an item of the
\* caller, to a positive weight other than the one the item had
WeightEditOf(a) ==
    /\ last.op = "patchItem"
    /\ PatchedFields = {"weight"}
    /\ a.id # NULL
    /\ a.user_id = last.user
    /\ Round(last.arg.body.weight) > 0
    /\ Round(last.arg.body.weight) # a.weight

\* The columns cloneList is to copy
Copied(i) ==
    [name |-> i.name, description |-> i.description, category |-> i.category,
     type |-> i.type, weight |-> i.weight, qty |-> i.qty]

\* The last request changed, deleted or tried to change an item that was in list l
MutationIn(l) ==
    \/ /\ last.op \in {"patchItem", "deleteItem"}
       /\ PreItem(last.arg.id).id # NULL
       /\ PreItem(last.arg.id).user_id = last.user
       /\ PreItem(last.arg.id).list_id = l
    \/ /\ last.op = "clearItems"
       /\ last.arg.id = l
       /\ l \in ListsOf(pre, last.user)

-----------------------------------------------------------------------------
(* Claims *)

\* C1: a successful weight edit of item A to a new weight sets that weight on
\* every item of the user that shared A's (name, category, type, weight), in
\* every list, and leaves exactly one catalog entry at the new key and none
\* at the pre-edit key.
C1_WeightFanOut ==
    LET a == PreItem(last.arg.id)
        w == Round(last.arg.body.weight)
    IN  (WeightEditOf(a) /\ last.status = 200) =>
            /\ \A b \in pre.items :
                   SameKey(b, last.user, a.name, a.category, a.type, a.weight) =>
                       \E i \in db.items : i.id = b.id /\ i.weight = w
            /\ Cardinality(GearsAt(db, last.user, a.name, a.category, a.type, w)) = 1
            /\ GearsAt(db, last.user, a.name, a.category, a.type, a.weight) = {}

\* A weight edit of A was served while an item B of another list shared A's key
C1_Witness ==
    LET a == PreItem(last.arg.id)
    IN  /\ WeightEditOf(a)
        /\ last.status = 200
        /\ \E b \in pre.items :
               /\ SameKey(b, last.user, a.name, a.category, a.type, a.weight)
               /\ b.list_id # a.list_id
               /\ b.list_id # NULL

\* C2: in every reachable state, whatever requests ran and however their
\* statements interleaved, no two catalog rows of a user share the same
\* (name, category, type, weight).
C2_CatalogUnique ==
    \A g \in db.gear_library, h \in db.gear_library : KeyOf(g) = KeyOf(h) => g = h

\* Two requests that wrote the catalog at one key, an added item and a
\* weight edit, have both been answered under the Postgres driver
C2_Witness ==
    \E p \in Procs, q \in Procs :
        /\ p # q
        /\ driver = "postgres"
        /\ reqs[p].pc = "done" /\ reqs[p].op = "postItems" /\ reqs[p].status = 201
        /\ reqs[q].pc = "done" /\ reqs[q].op = "patchItem" /\ reqs[q].status = 200
        /\ "weight" \in reqs[q].arg.body.has
        /\ reqs[q].ret.weight = reqs[p].ret.weight
        /\ reqs[q].ret.name = reqs[p].ret.name
        /\ \E g \in db.gear_library :
               SameKey(g, 1, reqs[p].ret.name, reqs[p].ret.category, reqs[p].ret.type,
                       reqs[p].ret.weight)

\* C3: when a statement of the weight edit's transaction fails, the request
\* reports an error and lists, items and catalog are as before the request.
C3_WeightEditAtomic ==
    LET a == PreItem(last.arg.id)
    IN  (WeightEditOf(a) /\ last.arg.fail # 0) =>
            /\ last.status = 500
            /\ last.ret.error = "update failed"
            /\ Tables(db) = pre

\* The catalog statement failed after the item update had found rows
C3_Witness ==
    LET a == PreItem(last.arg.id)
    IN  /\ WeightEditOf(a)
        /\ last.arg.fail >= 2
        /\ last.status = 500

\* C4: a user who has a list has one in every later state, also when two
\* requests to delete the user's two lists count the lists before either deletes.
C4_AtLeastOneList ==
    [][\A u \in Users : ListsOf(Tables(db), u) # {} => ListsOf(Tables(db'), u) # {}]_vars

\* C5: a call of ensureDefaultList right after another by the same user
\* returns the same list and creates no list, no item and no catalog row.
C5_EnsureIdempotent ==
    (last.op \in EnsureOps /\ last.prevDefault # NULL) =>
        /\ last.ret.defaultListId = last.prevDefault
        /\ Tables(db) = pre

\* Two calls in a row, the first of which had to create the list
C5_Witness ==
    /\ last.op \in EnsureOps
    /\ last.prevDefault # NULL
    /\ \A l \in ListsOf(pre, last.user) : l = last.prevDefault

\* C6: when requests of a user who owns no list run ensureDefaultList at
\* the same time, one default list is created, each starter item is
\* inserted once, and all of them return that list.
C6_EnsureConcurrent ==
    \A u \in Actors :
        (/\ ListsOf(pre, u) = {}
         /\ \A p \in Procs : reqs[p].pc # "idle" => reqs[p].op = "getLists"
         /\ Cardinality({p \in Procs : reqs[p].pc # "idle"}) = steps) =>
            /\ Cardinality(ListsOf(Tables(db), u)) <= 1
            /\ \A k \in 1..Len(SeedRows) :
                   Cardinality({i \in db.items : i.user_id = u /\ i.name = SeedRows[k].name}) <= 1
            /\ \A p \in Procs, q \in Procs :
                   (reqs[p].pc = "done" /\ reqs[q].pc = "done") =>
                       reqs[p].ret.defaultListId = reqs[q].ret.defaultListId

\* C7: deleting the only list of a user is refused and changes nothing.
C7_LastListProtected ==
    (last.op = "deleteList" /\ ListsOf(pre, last.user) = {last.arg.id}) =>
        /\ last.status = 400
        /\ last.ret.error = "keep at least one list"
        /\ Tables(db) = pre

\* The only list of the user, holding items, was asked to be deleted
C7_Witness ==
    /\ last.op = "deleteList"
    /\ ListsOf(pre, last.user) = {last.arg.id}
    /\ ItemsIn(pre, last.arg.id) # {}

\* C8: with two or more lists, deleting any list of the user succeeds,
\* removes that list and its items, and leaves the other lists, their items
\* and the catalog as they were.
C8_DeleteListFrame ==
    (/\ last.op = "deleteList"
     /\ last.arg.id \in ListsOf(pre, last.user)
     /\ Cardinality(ListsOf(pre, last.user)) >= 2) =>
        /\ last.status = 200
        /\ db.pack_lists = {l \in pre.pack_lists : l.id # last.arg.id}
        /\ db.items = {i \in pre.items : i.list_id # last.arg.id}
        /\ db.gear_library = pre.gear_library

\* A list with items was deleted while another list of the user had items
C8_Witness ==
    /\ last.op = "deleteList"
    /\ last.status = 200
    /\ ItemsIn(pre, last.arg.id) # {}
    /\ \E l \in ListsOf(pre, last.user) : l # last.arg.id /\ ItemsIn(pre, l) # {}

\* C9: right after cloneList the new list's items equal the source list's
\* items on (name, description, category, type, weight, qty), with the same
\* multiplicity, under fresh ids.
C9_CloneFaithful ==
    (last.op = "cloneList" /\ last.status = 201) =>
        LET src == ItemsIn(pre, last.arg.id)
            new == ItemsIn(db, last.ret.id)
        IN  /\ \A v \in {Copied(i) : i \in src \cup new} :
                   Cardinality({i \in src : Copied(i) = v})
                       = Cardinality({i \in new : Copied(i) = v})
            /\ \A i \in new : i.id \notin {j.id : j \in pre.items}

\* C10 as claimed: after cloneList, no mutation of an item of the clone
\* changes an item of the source list.
C10_CloneIndependent ==
    \A c \in cloned : MutationIn(c[2]) => ItemsIn(db, c[1]) = ItemsIn(pre, c[1])

\* C10 as amended: after cloneList, a category or type edit, a quantity
\* update, a delete or a clear applied to an item of the clone changes no
\* item of the source list.
C10_CloneIndependentEdits ==
    \A c \in cloned :
        (/\ MutationIn(c[2])
         /\ last.op = "patchItem" => PatchedFields \subseteq {"type", "category"}) =>
            ItemsIn(db, c[1]) = ItemsIn(pre, c[1])

\* The type or category of a clone's item was changed while the source had items
C10_Witness ==
    \E c \in cloned :
        /\ MutationIn(c[2])
        /\ last.op = "patchItem"
        /\ last.status = 200
        /\ PatchedFields # {}
        /\ PatchedFields \subseteq {"type", "category"}
        /\ ItemsIn(pre, c[1]) # {}

\* C11: a cloneList that succeeds leaves every item that existed, the source
\* list's among them, and the whole catalog as they were; one whose list
\* insert or item copy fails reports the failure and leaves no new list and
\* no copied item.
C11_CloneAllOrNothing ==
    (last.op = "cloneList" /\ last.arg.id \in ListsOf(pre, last.user)) =>
        /\ last.status = 201 =>
              /\ ItemsIn(db, last.arg.id) = ItemsIn(pre, last.arg.id)
              /\ pre.items \subseteq db.items
              /\ db.gear_library = pre.gear_library
        /\ last.arg.fail # 0 =>
              /\ last.status = 500
              /\ last.ret.error = "clone failed"
              /\ Tables(db) = pre

\* The copy of a list that holds items failed after the new list was inserted
C11_Witness ==
    /\ last.op = "cloneList"
    /\ last.arg.fail = 2
    /\ last.status = 500
    /\ ItemsIn(pre, last.arg.id) # {}
    /\ \E i \in ItemsIn(pre, last.arg.id) : i.user_id = last.user

\* The last request was a PATCH of the description alone, of an item of the caller
DescriptionEditOf(a) ==
    /\ last.op = "patchItem"
    /\ PatchedFields = {"description"}
    /\ a.id # NULL
    /\ a.user_id = last.user

SameTriple(r, a) ==
    r.user_id = a.user_id /\ r.name = a.name /\ r.type = a.type /\ r.weight = a.weight

\* A row set after a description edit: the rows of before, those with the
\* edited item's (name, type, weight) carrying the new description
Redescribed(rows, a, description) ==
    {IF SameTriple(r, a) THEN [r EXCEPT !.description = description] ELSE r : r \in rows}

\* C12: a description edit of an item sets the new description on every item
\* of the user with the item's (name, type, weight), in every list and
\* category, and on every catalog row of the user with that triple; every
\* other item and catalog row is as before.
C12_DescriptionFanOut ==
    LET a == PreItem(last.arg.id)
        description == Slice(Trim(last.arg.body.description), 80)
    IN  DescriptionEditOf(a) =>
            /\ last.status = 200
            /\ db.items = Redescribed(pre.items, a, description)
            /\ db.gear_library = Redescribed(pre.gear_library, a, description)
            /\ last.ret.description = description

\* The edited item's triple was also on an item of another list and
\* category and on two catalog rows, all with another description
C12_Witness ==
    LET a == PreItem(last.arg.id)
        description == Slice(Trim(last.arg.body.description), 80)
    IN  /\ DescriptionEditOf(a)
        /\ a.description # description
        /\ \E b \in pre.items :
               /\ SameTriple(b, a)
               /\ b.category # a.category
               /\ b.list_id # a.list_id
               /\ b.description # description
        /\ Cardinality({g \in pre.gear_library :
                            SameTriple(g, a) /\ g.description # description}) = 2

\* C13: the item updates and the catalog update of one description edit are
\* applied together: no state, as a concurrent reader would find it, has the
\* items of the edited triple carrying the new description while a catalog
\* row of that triple still carries another one.
C13_DescriptionEditAtomic ==
    \A p \in Procs :
        (Running(p) /\ reqs[p].op = "patchItem" /\ reqs[p].pc = "dGear") =>
            LET a == [reqs[p].loc.cur EXCEPT !.id = @] @@ [user_id |-> reqs[p].user]
                description == Slice(Trim(reqs[p].arg.body.description), 80)
            IN  ~ /\ \E i \in db.items : SameTriple(i, a)
                  /\ \A i \in db.items : SameTriple(i, a) => i.description = description
                  /\ \E g \in db.gear_library : SameTriple(g, a) /\ g.description # description

\* C14: when a catalog row already exists at the new key of a weight edit,
\* that row afterwards has as default quantity the larger of its own and
\* the edited item's quantity, and as description the edited item's; no
\* catalog row is left at the pre-edit key.
C14_WeightEditMerge ==
    LET a == PreItem(last.arg.id)
        weight == Round(last.arg.body.weight)
        existing == GearsAt(pre, last.user, a.name, a.category, a.type, weight)
    IN  (WeightEditOf(a) /\ last.status = 200 /\ existing # {}) =>
            /\ \A e \in existing :
                   \E g \in GearsAt(db, last.user, a.name, a.category, a.type, weight) :
                       /\ g.id = e.id
                       /\ g.default_qty = Max(e.default_qty, a.qty)
                       /\ g.description = a.description
            /\ GearsAt(db, last.user, a.name, a.category, a.type, a.weight) = {}

\* C15: when no catalog row exists at the new key of a weight edit, the
\* catalog row at the pre-edit key stays the same row, with its id, its
\* description and its default quantity, and only its weight is the new one.
C15_WeightEditInPlace ==
    LET a == PreItem(last.arg.id)
        weight == Round(last.arg.body.weight)
    IN  (/\ WeightEditOf(a)
         /\ last.status = 200
         /\ GearsAt(pre, last.user, a.name, a.category, a.type, weight) = {}) =>
            \A e \in GearsAt(pre, last.user, a.name, a.category, a.type, a.weight) :
                [e EXCEPT !.weight = weight] \in db.gear_library

\* C16: a weight edit to the weight the item already has changes no item
\* and no catalog row and returns the item as it was.  A weight edit is a
\* request the handler takes as one: its weight rounds to at least 1.
C16_WeightNoOp ==
    LET a == PreItem(last.arg.id)
    IN  (/\ last.op = "patchItem"
         /\ PatchedFields = {"weight"}
         /\ a.id # NULL
         /\ a.user_id = last.user
         /\ Round(last.arg.body.weight) >= 1
         /\ Round(last.arg.body.weight) = a.weight) =>
            /\ last.status = 200
            /\ Tables(db) = pre
            /\ last.ret = ItemView(a)

\* An item with a catalog row at its key was edited to the weight it had
C16_Witness ==
    LET a == PreItem(last.arg.id)
    IN  /\ last.op = "patchItem"
        /\ PatchedFields = {"weight"}
        /\ a.id # NULL
        /\ a.user_id = last.user
        /\ Round(last.arg.body.weight) = a.weight
        /\ GearsAt(pre, last.user, a.name, a.category, a.type, a.weight) # {}

\* C17: an upsert of a catalog entry at a key that exists leaves that row
\* with the larger of its default quantity and the candidate's, and with
\* the candidate's description; at a new key it inserts one row; either
\* way it returns the resulting row.
C17_UpsertKeepsMax ==
    LET b == last.arg.body
        name == Trim(b.name)
        category == Trim(b.category)
        type == Trim(b.type)
        weight == Round(b.weight)
        defaultQty == Round(IF b.qty # 0 THEN b.qty ELSE 10)
        description == Slice(Trim(b.description), 80)
        existing == GearsAt(pre, last.user, name, category, type, weight)
        resulting == GearsAt(db, last.user, name, category, type, weight)
    IN  (last.op = "postGears" /\ last.status = 201) =>
            /\ Cardinality(resulting) = 1
            /\ \A g \in resulting :
                   /\ g.description = description
                   /\ last.ret = g
                   /\ \A e \in existing :
                          g.id = e.id /\ g.default_qty = Max(e.default_qty, defaultQty)
                   /\ existing = {} =>
                          g.default_qty = defaultQty /\ g.id \notin Ids(pre.gear_library)
            /\ db.gear_library \ resulting = pre.gear_library \ existing

\* C18: after a successful createItem the user's catalog has a row with the
\* created item's (name, category, type, weight), the target list has
\* exactly one item more, and every other item row is as before.
C18_CreateItemRemembers ==
    (last.op = "postItems" /\ last.status = 201) =>
        LET created == {i \in db.items : i.id = last.ret.id}
        IN  /\ GearsAt(db, last.user, last.ret.name, last.ret.category, last.ret.type,
                       last.ret.weight) # {}
            /\ Cardinality(created) = 1
            /\ \A i \in created : i.list_id = last.arg.id /\ i.user_id = last.user
            /\ last.ret.id \notin Ids(pre.items)
            /\ db.items \ created = pre.items
            /\ last.arg.id \in ListsOf(pre, last.user)

\* An item at a key the catalog did not have was added to one of two lists
\* that hold items
C18_Witness ==
    /\ last.op = "postItems"
    /\ last.status = 201
    /\ GearsAt(pre, last.user, last.ret.name, last.ret.category, last.ret.type,
               last.ret.weight) = {}
    /\ \E l \in ListsOf(pre, last.user) : l # last.arg.id /\ ItemsIn(pre, l) # {}

\* C19: a create or update request that fails validation changes no row,
\* also a PATCH whose earlier field is valid and whose later field is not.
C19_InvalidInputNoEffect ==
    (last.op \in {"postItems", "postGears", "patchItem"} /\ last.status = 400) =>
        Tables(db) = pre

\* C20: in every state every item is in a list that exists and belongs to
\* the item's owner, also when a request that checks a list and then
\* inserts into it overlaps a request that deletes that list.
C20_ItemsInLists ==
    \A i \in db.items :
        \E l \in db.pack_lists : l.id = i.list_id /\ l.user_id = i.user_id

\* The list a GET /api/gears reported on: the one it named, else the default
ListedList == IF last.arg.id # 0 THEN last.arg.id ELSE last.ret.defaultListId

\* C21: the catalog listing for list L reports every catalog row of the
\* user, with inCurrentList true exactly when an item of the user in L has
\* the row's (name, category, type, weight); computing it changes no row.
C21_PresenceProjection ==
    last.op = "getGears" =>
        /\ last.status = 200
        /\ {r.id : r \in last.ret.gears} = {g.id : g \in {r \in db.gear_library : r.user_id = last.user}}
        /\ \A r \in last.ret.gears :
               \A g \in db.gear_library :
                   g.id = r.id =>
                       (r.inCurrentList <=>
                            \E i \in ItemsIn(db, ListedList) :
                                SameKey(i, last.user, g.name, g.category, g.type, g.weight))
        /\ (/\ ListsOf(pre, last.user) # {}
            /\ \A i \in pre.items : i.user_id = last.user => i.list_id # NULL) =>
               Tables(db) = pre

\* A listing that reports one row in the list, and another row out of it
\* whose key is on an item of another list
C21_Witness ==
    /\ last.op = "getGears"
    /\ \E r \in last.ret.gears : r.inCurrentList
    /\ \E r \in last.ret.gears :
           /\ ~r.inCurrentList
           /\ \E g \in db.gear_library, i \in db.items :
                  /\ g.id = r.id
                  /\ SameKey(i, last.user, g.name, g.category, g.type, g.weight)
                  /\ i.list_id # ListedList

\* C22: a category edit or a type edit changes the edited field of the
\* addressed item row and nothing else: every other item, siblings with the
\* same natural key in other lists included, every catalog row and every
\* list is as before.
C22_NoFanOut ==
    LET a == PreItem(last.arg.id)
        b == last.arg.body
        edited == IF PatchedFields = {"type"} THEN [a EXCEPT !.type = Trim(b.type)]
                  ELSE [a EXCEPT !.category = Slice(Trim(b.category), 20)]
    IN  (/\ last.op = "patchItem"
         /\ PatchedFields \in {{"type"}, {"category"}}
         /\ a.id # NULL
         /\ a.user_id = last.user
         /\ last.status = 200) =>
            /\ db.items = (pre.items \ {a}) \cup {edited}
            /\ db.gear_library = pre.gear_library
            /\ db.pack_lists = pre.pack_lists

\* The category of an item was changed while another list held an item
\* with the same natural key
C22_Witness ==
    LET a == PreItem(last.arg.id)
    IN  /\ last.op = "patchItem"
        /\ PatchedFields = {"category"}
        /\ a.id # NULL
        /\ a.user_id = last.user
        /\ last.status = 200
        /\ a.category # Slice(Trim(last.arg.body.category), 20)
        /\ \E s \in pre.items :
               /\ s.id # a.id
               /\ s.list_id # a.list_id
               /\ SameKey(s, a.user_id, a.name, a.category, a.type, a.weight)

\* C23: an update request that carries only a positive quantity, for an
\* item of the caller, succeeds and sets the item's quantity to it; no
\* other item and no catalog row changes.
C23_UpdateQuantity ==
    LET a == PreItem(last.arg.id)
    IN  (/\ last.op = "patchItem"
         /\ last.arg.body.has = {"qty"}
         /\ a.id # NULL
         /\ a.user_id = last.user
         /\ Round(last.arg.body.qty) > 0) =>
            /\ last.status = 200
            /\ db.items = (pre.items \ {a}) \cup {[a EXCEPT !.qty = Round(last.arg.body.qty)]}
            /\ db.gear_library = pre.gear_library

\* C24: deleteItem, clearList and deleteList delete and change no catalog
\* row: the catalog row of a gear is there after the last item with its
\* key is gone.
C24_CatalogDurable ==
    last.op \in {"deleteItem", "clearItems", "deleteList"} =>
        db.gear_library = pre.gear_library

\* A deletion took the last item that had the key of a catalog row
C24_Witness ==
    /\ last.op \in {"deleteItem", "clearItems", "deleteList"}
    /\ last.status = 200
    /\ \E i \in pre.items \ db.items :
           /\ GearsAt(pre, i.user_id, i.name, i.category, i.type, i.weight) # {}
           /\ ~\E j \in db.items : SameKey(j, i.user_id, i.name, i.category, i.type, i.weight)

\* The last request passed the checks of its body and named, by a valid
\* id, a list, an item or a catalog row the caller does not own
AddressedAbsent ==
    LET u == last.user
        id == last.arg.id
        b == last.arg.body
        noItem == ~\E i \in pre.items : i.id = id /\ i.user_id = u
        noList == id \notin ListsOf(pre, u)
        noGear == ~\E g \in pre.gear_library : g.id = id /\ g.user_id = u
    IN  \/ last.op = "patchItem" /\ ValidId(id) /\ PatchedFields # {} /\ noItem
        \/ last.op = "deleteItem" /\ ValidId(id) /\ noItem
        \/ last.op \in {"deleteList", "cloneList", "clearItems", "getItems"} /\ ValidId(id) /\ noList
        \/ /\ last.op = "postItems"
           /\ ValidId(id)
           /\ noList
           /\ Trim(b.name) # EmptyText
           /\ Trim(OrElse(b.type, BASE)) \in ValidTypes
           /\ b.weight > 0
           /\ b.qty > 0
        \/ last.op = "deleteGear" /\ ValidId(id) /\ noGear
        \/ /\ last.op = "addToList"
           /\ ValidId(id)
           /\ ValidId(last.arg.listId)
           /\ noGear \/ last.arg.listId \notin ListsOf(pre, u)

\* C25: an operation addressed to a list, item or catalog row that does not
\* exist or belongs to another user reports NotFound and changes no row.
C25_NotFoundNoEffect ==
    AddressedAbsent => (last.status = 404 /\ Tables(db) = pre)

\* The rows of a database with their identifiers left out: each item with
\* the name of its list, each catalog row, and how many rows are alike
ListNameOf(D, listId) ==
    IF \E l \in D.pack_lists : l.id = listId
    THEN (CHOOSE l \in D.pack_lists : l.id = listId).name
    ELSE EmptyText

ItemContent(D, i) ==
    [user_id |-> i.user_id, list |-> ListNameOf(D, i.list_id), name |-> i.name,
     category |-> i.category, type |-> i.type, weight |-> i.weight, qty |-> i.qty,
     description |-> i.description]

GearContent(g) == [f \in (DOMAIN g) \ {"id"} |-> g[f]]

ItemRows(D) ==
    [r \in {ItemContent(D, i) : i \in D.items} |->
        Cardinality({i \in D.items : ItemContent(D, i) = r})]

GearRows(D) ==
    [r \in {GearContent(g) : g \in D.gear_library} |->
        Cardinality({g \in D.gear_library : GearContent(g) = r})]

ListRows(D) ==
    [r \in {<<l.user_id, l.name>> : l \in D.pack_lists} |->
        Cardinality({l \in D.pack_lists : <<l.user_id, l.name>> = r})]

UpToIds(r) ==
    [status |-> r.status, lists |-> ListRows(r.db), items |-> ItemRows(r.db),
     gears |-> GearRows(r.db)]

\* C26: from the same state, the same operation returns the same result and
\* leaves the same lists, items and catalog rows under the SQLite driver and
\* under the Postgres driver, up to row identifiers.
C26_BackendEquivalence ==
    \A u \in Actors :
        /\ UpToIds(GetLists(db, "sqlite", u)) = UpToIds(GetLists(db, "postgres", u))
        /\ \A l \in ListIdsIn, n \in ListNames :
               UpToIds(CloneList(db, "sqlite", u, l, n, 0))
                   = UpToIds(CloneList(db, "postgres", u, l, n, 0))
        /\ \A l \in ListIdsIn, b \in ItemBodies :
               UpToIds(PostItems(db, "sqlite", u, l, b))
                   = UpToIds(PostItems(db, "postgres", u, l, b))
        /\ \A i \in ItemIdsIn, b \in PatchBodies :
               UpToIds(PatchItem(db, "sqlite", u, i, b, 0))
                   = UpToIds(PatchItem(db, "postgres", u, i, b, 0))

\* C27: every item whose (name, category, type, weight) is the natural key of
\* one of its owner's catalog rows carries that row's description.
C27_DescriptionsAgree ==
    \A i \in db.items, g \in db.gear_library :
        (i.user_id = g.user_id /\ KeyOf(i) = KeyOf(g)) => i.description = g.description

\* C28: every stored item has a weight of at least 1 and a quantity of at
\* least 1, and every catalog row a weight of at least 1 and a default
\* quantity of at least 1.
C28_PositiveIntegers ==
    /\ \A i \in db.items : i.weight >= 1 /\ i.qty >= 1
    /\ \A g \in db.gear_library : g.weight >= 1 /\ g.default_qty >= 1

\* C29: every stored item has a description of at most 80 characters and a
\* category of at most 20 characters.
C29_LengthBounds ==
    \A i \in db.items : Len(i.description) <= 80 /\ Len(i.category) <= 20

-----------------------------------------------------------------------------
\* The client: the items on the page and the totals computed from them.
\* src/src/App.jsx computes `totals`; the static page src/app.js computes
\* computeTotals and writes it to baseWeight and totalWeight.  Weights are
\* whole grams, so formatG's Math.round leaves the sums as they are.

MaxItems == 3

FormItems == [name : {Tent, EmptyText}, type : ValidTypes, weight : {0, 120, 350}, qty : {1, 2}]

itemTotal(item) == item.weight * item.qty

carriedItemTotal(item) == IF item.type = WORN THEN 0 ELSE itemTotal(item)

\* items.reduce((sum, item) => sum + carriedItemTotal(item), sum)
RECURSIVE ReduceCarried(_, _)
ReduceCarried(items, sum) ==
    IF items = <<>> THEN sum
    ELSE ReduceCarried(Tail(items), sum + carriedItemTotal(Head(items)))

\* items.reduce((sum, it) => sum + itemTotal(it), sum)
RECURSIVE ReduceTotal(_, _)
ReduceTotal(items, sum) ==
    IF items = <<>> THEN sum
    ELSE ReduceTotal(Tail(items), sum + itemTotal(Head(items)))

FilterBase(items) == SelectSeq(items, LAMBDA it : it.type = BASE)

totals(items) ==
    [total |-> ReduceCarried(items, 0), base |-> ReduceTotal(FilterBase(items), 0)]

computeTotals(items) ==
    [total |-> ReduceTotal(items, 0), base |-> ReduceTotal(FilterBase(items), 0)]

renderTotals(items) ==
    [totals |-> totals(items),
     baseWeight |-> computeTotals(items).base,
     totalWeight |-> computeTotals(items).total]

Show(items) ==
    /\ state' = [items |-> items]
    /\ rendered' = renderTotals(items)
    /\ UNCHANGED <<driver, db, last, pre, cloned, reqs, steps, auth>>

\* The form's submit handler: an item without a name, weight or quantity is
\* dropped, any other is pushed and the page rendered again
Submit ==
    \E item \in FormItems :
        /\ Len(state.items) < MaxItems
        /\ IF item.name = EmptyText \/ item.weight <= 0 \/ item.qty <= 0
           THEN UNCHANGED vars
           ELSE Show(Append(state.items, item))

\* An item's delete button
DeleteClick ==
    \E k \in DOMAIN state.items :
        Show(SubSeq(state.items, 1, k - 1) \o SubSeq(state.items, k + 1, Len(state.items)))

\* The clear button, confirmed or not
ClearClick ==
    /\ state.items # <<>>
    /\ \E ok \in BOOLEAN : IF ok THEN Show(<<>>) ELSE UNCHANGED vars

InitClient ==
    /\ driver = "sqlite"
    /\ db = EmptyDb
    /\ last = NoRequest
    /\ pre = Tables(db)
    /\ cloned = {}
    /\ reqs = [p \in Procs |-> Idle]
    /\ steps = 0
    /\ state = [items |-> <<>>]
    /\ rendered = renderTotals(<<>>)
    /\ auth = NoAuth

NextClient ==
    \/ Submit
    \/ DeleteClick
    \/ ClearClick

SpecClient == InitClient /\ [][NextClient]_vars

\* The sum of weight x qty over the items at the positions S
RECURSIVE WeightAt(_, _)
WeightAt(items, S) ==
    IF S = {} THEN 0
    ELSE LET k == CHOOSE k \in S : TRUE
         IN  items[k].weight * items[k].qty + WeightAt(items, S \ {k})

\* C30: the total carried weight shown is the sum of weight x qty over the
\* items that are not worn, and the base weight shown is the sum over the
\* items of type base, in both clients.
C30_WeightTotals ==
    LET items == state.items
        carried == WeightAt(items, {k \in DOMAIN items : items[k].type # WORN})
        base == WeightAt(items, {k \in DOMAIN items : items[k].type = BASE})
    IN  /\ rendered.totals = [total |-> carried, base |-> base]
        /\ rendered.totalWeight = carried
        /\ rendered.baseWeight = base

-----------------------------------------------------------------------------
\* The items a PATCH of item a with the fields of body b must leave, when
\* the fields are applied in the order type, weight, category, description,
\* each on what the one before left
OrderedPatch(a, b) ==
    LET has == b.has \cap Fields
        type == IF "type" \in has THEN Trim(b.type) ELSE a.type
        weight == IF "weight" \in has THEN Round(b.weight) ELSE a.weight
        category == IF "category" \in has THEN Slice(Trim(b.category), 20) ELSE a.category
        description == Slice(Trim(b.description), 80)
        Typed(i) == IF i.id = a.id THEN [i EXCEPT !.type = type] ELSE i
        Weighed(i) ==
            IF /\ i.user_id = a.user_id
               /\ i.name = a.name
               /\ i.category = a.category
               /\ i.type = type
               /\ i.weight = a.weight
            THEN [i EXCEPT !.weight = weight] ELSE i
        Filed(i) == IF i.id = a.id THEN [i EXCEPT !.category = category] ELSE i
        Described(i) ==
            IF /\ "description" \in has
               /\ i.user_id = a.user_id
               /\ i.name = a.name
               /\ i.type = type
               /\ i.weight = weight
            THEN [i EXCEPT !.description = description] ELSE i
    IN  {Described(Filed(Weighed(Typed(i)))) : i \in pre.items}

\* C31: a PATCH carrying several fields applies them in the order type,
\* weight, category, description: the weight reaches the items at the edited
\* item's new type and old category, the description those at its new type
\* and new weight.
C31_FixedOrder ==
    LET a == PreItem(last.arg.id)
    IN  (/\ last.op = "patchItem"
         /\ last.status = 200
         /\ Cardinality(PatchedFields) >= 2) =>
            db.items = OrderedPatch(a, last.arg.body)

\* A PATCH of weight and category went through, and an item already in the
\* new category at the old weight kept its weight
C31_Witness ==
    LET a == PreItem(last.arg.id)
        b == last.arg.body
    IN  /\ last.op = "patchItem"
        /\ last.status = 200
        /\ PatchedFields = {"weight", "category"}
        /\ Round(b.weight) # a.weight
        /\ Trim(b.category) # a.category
        /\ \E s \in db.items :
               /\ s.id # a.id
               /\ s.user_id = a.user_id
               /\ s.name = a.name
               /\ s.type = a.type
               /\ s.category = Trim(b.category)
               /\ s.weight = a.weight

\* C32: a weight edit that is answered with an item is answered with the
\* item at the requested weight, also when another weight edit of the same
\* user runs at the same time.
C32_ReturnsRequestedWeight ==
    \A p \in Procs :
        (/\ reqs[p].pc = "done"
         /\ reqs[p].op = "patchItem"
         /\ reqs[p].arg.body.has = {"weight"}
         /\ reqs[p].status = 200) =>
            reqs[p].ret.weight = Round(reqs[p].arg.body.weight)

\* C33: a weight edit changes the weight alone, and only of the user's items
\* at the edited item's key: every other item keeps its weight, and every
\* item its quantity, description, category, type and list.
C33_WeightEditFrame ==
    LET a == PreItem(last.arg.id)
        w == Round(last.arg.body.weight)
    IN  (WeightEditOf(a) /\ last.status = 200) =>
            /\ Cardinality(db.items) = Cardinality(pre.items)
            /\ \A i \in pre.items :
                   \E j \in db.items :
                       /\ j = [i EXCEPT !.weight = j.weight]
                       /\ j.weight \in {i.weight, w}
                       /\ ~SameKey(i, last.user, a.name, a.category, a.type, a.weight) =>
                              j.weight = i.weight

\* A weight edit went through while the user had an item of the same name,
\* type and weight in another category
C33_Witness ==
    LET a == PreItem(last.arg.id)
    IN  /\ WeightEditOf(a)
        /\ last.status = 200
        /\ \E i \in pre.items :
               /\ i.user_id = a.user_id
               /\ i.name = a.name
               /\ i.type = a.type
               /\ i.weight = a.weight
               /\ i.category # a.category

\* The rows of the tables T that belong to users other than u
RowsOfOthers(T, u) ==
    [pack_lists |-> {l \in T.pack_lists : l.user_id # u},
     items |-> {i \in T.items : i.user_id # u},
     gear_library |-> {g \in T.gear_library : g.user_id # u}]

\* C34: a request of one user changes no list, item or catalog row of
\* another user, also when that user owns rows of the same name, category,
\* type and weight.
C34_UserIsolation ==
    last.op # "none" => RowsOfOthers(Tables(db), last.user) = RowsOfOthers(pre, last.user)

\* A weight or description edit went through while another user had an item
\* and a catalog row at the edited item's key
C34_Witness ==
    LET a == PreItem(last.arg.id)
    IN  /\ last.op = "patchItem"
        /\ last.status = 200
        /\ PatchedFields \in {{"weight"}, {"description"}}
        /\ Tables(db) # pre
        /\ \E i \in pre.items, g \in pre.gear_library :
               /\ i.user_id # last.user
               /\ g.user_id = i.user_id
               /\ KeyOf(g) = KeyOf(i)
               /\ SameKey(i, i.user_id, a.name, a.category, a.type, a.weight)

\* C35: after a weight edit that changed the weight, the user's catalog has
\* a row for the item's name, category and type at the new weight, also when
\* it had none at the old weight.
C35_CatalogAtNewWeight ==
    LET a == PreItem(last.arg.id)
        w == Round(last.arg.body.weight)
    IN  (WeightEditOf(a) /\ last.status = 200) =>
            GearsAt(db, last.user, a.name, a.category, a.type, w) # {}

\* A weight edit went through for an item with no catalog row at its old
\* key nor at its new one
C35_Witness ==
    LET a == PreItem(last.arg.id)
        w == Round(last.arg.body.weight)
    IN  /\ WeightEditOf(a)
        /\ last.status = 200
        /\ GearsAt(pre, last.user, a.name, a.category, a.type, a.weight) = {}
        /\ GearsAt(pre, last.user, a.name, a.category, a.type, w) = {}

\* C36: adding a catalog row g of the caller to a list L of the caller
\* inserts one item in L with g's name, description, category, type and
\* weight, and the requested quantity, or g's default quantity when none is
\* requested, and at least 1; no catalog row and no other item changes, and
\* g is then listed as present in L.
C36_AddToList ==
    LET g == RowOf({r \in pre.gear_library : r.id = last.arg.id /\ r.user_id = last.user})
        L == last.arg.listId
        q == last.arg.qty
        new == db.items \ pre.items
    IN  (last.op = "addToList" /\ g.id # NULL /\ L \in ListsOf(pre, last.user)) =>
            /\ last.status = 201
            /\ db.gear_library = pre.gear_library
            /\ db.pack_lists = pre.pack_lists
            /\ pre.items \subseteq db.items
            /\ Cardinality(new) = 1
            /\ \A n \in new :
                   /\ n.user_id = last.user
                   /\ n.list_id = L
                   /\ n.name = g.name
                   /\ n.description = g.description
                   /\ n.category = g.category
                   /\ n.type = g.type
                   /\ n.weight = g.weight
                   /\ n.qty >= 1
                   /\ n.qty = (IF q = 0 THEN Max(1, g.default_qty) ELSE Max(1, Round(q)))
            /\ \E r \in listGears(db, last.user, L) : r.id = g.id /\ r.inCurrentList

\* A catalog row was added with a requested quantity that rounds to 0, to a
\* list that already held an item of that gear
C36_Witness ==
    LET g == RowOf({r \in pre.gear_library : r.id = last.arg.id /\ r.user_id = last.user})
    IN  /\ last.op = "addToList"
        /\ g.id # NULL
        /\ last.arg.listId \in ListsOf(pre, last.user)
        /\ last.arg.qty # 0
        /\ Round(last.arg.qty) = 0
        /\ InCurrentList(pre, g, last.arg.listId)

\* C37: deleting a catalog row removes that row of the caller and nothing
\* else: no item and no list changes, and the items at the row's key stay
\* in their lists.
C37_DeleteGearFrame ==
    (last.op = "deleteGear" /\ last.status = 200) =>
        /\ db.items = pre.items
        /\ db.pack_lists = pre.pack_lists
        /\ db.gear_library \subseteq pre.gear_library
        /\ pre.gear_library \ db.gear_library =
               {g \in pre.gear_library : g.id = last.arg.id /\ g.user_id = last.user}
        /\ Cardinality(pre.gear_library \ db.gear_library) = 1

\* A catalog row was deleted while a list held an item at its key
C37_Witness ==
    /\ last.op = "deleteGear"
    /\ last.status = 200
    /\ \E g \in pre.gear_library, i \in pre.items :
           /\ g.id = last.arg.id
           /\ g.user_id = last.user
           /\ i.list_id \in ListsOf(pre, last.user)
           /\ SameKey(i, g.user_id, g.name, g.category, g.type, g.weight)

-----------------------------------------------------------------------------
\* Password reset: createPasswordReset and resetPasswordWithCode of both
\* drivers, for the one registered user.  Under the Postgres driver a call
\* gives way at every statement; its UPDATEs are staged until COMMIT and the
\* lock on the users row makes a second transaction wait.  Under the SQLite
\* driver a call is one step.

MaxResets == 2

MaxCalls == 3

Emails == {"hiker", "nobody"}

ResetCodes == {"100001", "100002"}

PasswordHashes == {1, 2}

\* SELECT id FROM users WHERE email = ?
UserOfEmail(email) == IF email = "hiker" THEN 1 ELSE NULL

\* sha256 of the code, as the hex text that is stored
hashResetCode(code) == <<"sha256", code>>

\* The rows a reset call may use: of the user, with the code, unused, not expired
UsableResets(A, userId, code) ==
    {r \in A.password_resets :
        /\ r.user_id = userId
        /\ r.code_hash = hashResetCode(code)
        /\ ~r.used
        /\ ~r.expired}

\* ... ORDER BY created_at DESC LIMIT 1
LatestReset(A, userId, code) ==
    CHOOSE r \in UsableResets(A, userId, code) :
        \A q \in UsableResets(A, userId, code) : q.id <= r.id

\* UPDATE password_resets SET used_at = NOW() WHERE user_id = ? AND used_at IS NULL
MarkUsed(A, ids) ==
    [A EXCEPT !.password_resets = {IF r.id \in ids THEN [r EXCEPT !.used = TRUE] ELSE r : r \in @}]

UnusedOf(A, userId) == {r.id : r \in {q \in A.password_resets : q.user_id = userId /\ ~q.used}}

\* The call of process p ends and returns ok
Return(A, p, ok) ==
    LET c == A.calls[p]
    IN  [A EXCEPT !.calls[p] = NoCall,
                  !.lock = IF @ = p THEN 0 ELSE @,
                  !.returned = IF ok THEN @ \cup {[reset |-> c.reset, call |-> c.call,
                                                   password_hash |-> c.passwordHash]}
                               ELSE @]

\* createSqliteDb.resetPasswordWithCode: the whole call
resetPasswordWithCode(A, p, email, code, passwordHash) ==
    LET userId == UserOfEmail(email)
        reset == LatestReset(A, userId, code)
        call == [pc |-> "run", reset |-> reset.id, call |-> A.started + 1,
                 passwordHash |-> passwordHash]
        A1 == [A EXCEPT !.started = @ + 1, !.calls[p] = call]
        A2 == [A1 EXCEPT !.password_hash = passwordHash]
        A3 == MarkUsed(A2, UnusedOf(A2, userId))
    IN  IF userId = NULL \/ UsableResets(A, userId, code) = {}
        THEN [A EXCEPT !.started = @ + 1]
        ELSE Return(A3, p, TRUE)

\* createPostgresDb.resetPasswordWithCode: one statement of the call of p
ResetStatement(A, p, ok) ==
    LET c == A.calls[p]
    IN  CASE c.pc = "selectUser" ->
                IF UserOfEmail(c.email) = NULL THEN Return(A, p, FALSE)
                ELSE [A EXCEPT !.calls[p].pc = "selectReset", !.calls[p].user = UserOfEmail(c.email)]
          [] c.pc = "selectReset" ->
                IF UsableResets(A, c.user, c.code) = {} THEN Return(A, p, FALSE)
                ELSE [A EXCEPT !.calls[p].pc = "updateUser",
                               !.calls[p].reset = LatestReset(A, c.user, c.code).id]
          [] c.pc = "updateUser" ->
                IF ~ok THEN Return(A, p, FALSE)
                ELSE [A EXCEPT !.calls[p].pc = "markUsed", !.lock = p]
          [] c.pc = "markUsed" ->
                IF ~ok THEN Return(A, p, FALSE)
                ELSE [A EXCEPT !.calls[p].pc = "commit",
                               !.calls[p].marked = UnusedOf(A, c.user)]
          [] c.pc = "commit" ->
                Return(MarkUsed([A EXCEPT !.password_hash = c.passwordHash], c.marked), p, TRUE)

AuthOnly == UNCHANGED <<driver, db, last, pre, cloned, reqs, steps, state, rendered>>

\* POST /api/auth/forgot-password for a registered address
CreateReset ==
    \E code \in ResetCodes :
        /\ Cardinality(auth.password_resets) < MaxResets
        /\ auth' = [auth EXCEPT !.password_resets =
                        @ \cup {[id |-> Cardinality(@) + 1, user_id |-> 1,
                                 code_hash |-> hashResetCode(code),
                                 used |-> FALSE, expired |-> FALSE]}]
        /\ AuthOnly

\* Fifteen minutes after a code was made
Elapse ==
    \E r \in auth.password_resets :
        /\ ~r.expired
        /\ auth' = [auth EXCEPT !.password_resets = (@ \ {r}) \cup {[r EXCEPT !.expired = TRUE]}]
        /\ AuthOnly

\* A reset call under the SQLite driver
ResetWhole ==
    \E p \in Procs, email \in Emails, code \in ResetCodes, h \in PasswordHashes :
        /\ driver = "sqlite"
        /\ auth.started < MaxCalls
        /\ auth' = resetPasswordWithCode(auth, p, email, code, h)
        /\ AuthOnly

\* A reset call begins under the Postgres driver
StartReset ==
    \E p \in Procs, email \in Emails, code \in ResetCodes, h \in PasswordHashes :
        /\ driver = "postgres"
        /\ auth.started < MaxCalls
        /\ auth.calls[p].pc = "idle"
        /\ auth' = [auth EXCEPT !.started = @ + 1,
                                !.calls[p] = [pc |-> "selectUser", email |-> email, code |-> code,
                                              passwordHash |-> h, user |-> NULL, reset |-> NULL,
                                              marked |-> {}, call |-> auth.started + 1]]
        /\ AuthOnly

\* Its next statement, which may fail once the transaction is open; the
\* UPDATE of the users row waits while another call holds the row
ResetStep ==
    \E p \in Procs, ok \in BOOLEAN :
        /\ auth.calls[p].pc \notin {"idle"}
        /\ auth.calls[p].pc = "updateUser" => auth.lock \in {0, p}
        /\ ~ok => auth.calls[p].pc \in {"updateUser", "markUsed"}
        /\ auth' = ResetStatement(auth, p, ok)
        /\ AuthOnly

InitReset ==
    /\ driver \in {"postgres", "sqlite"}
    /\ db = EmptyDb
    /\ last = NoRequest
    /\ pre = Tables(db)
    /\ cloned = {}
    /\ reqs = [p \in Procs |-> Idle]
    /\ steps = 0
    /\ state = [items |-> <<>>]
    /\ rendered = NothingRendered
    /\ auth = NoAuth

NextReset ==
    \/ CreateReset
    \/ Elapse
    \/ ResetWhole
    \/ StartReset
    \/ ResetStep

SpecReset == InitReset /\ [][NextReset]_vars

\* C38: a reset code is used once: no two calls that returned true found
\* the same password_resets row, one after the other or at the same time.
C38_SingleUse ==
    \A a, b \in auth.returned : a.reset = b.reset => a = b

=============================================================================
